---- MODULE Spec2Model ----
(***************************************************************************)
(* Ingestion worker (apps/ingestion-worker): the message loop of main.py   *)
(* with its keep-alive task, concurrency gate, crawler singleton, handler  *)
(* dispatch, publish and requeue/finish logic, as a state machine.         *)
(*                                                                         *)
(* process_message is a coroutine on a single-threaded event loop: every   *)
(* action below is the code that runs between two suspension points.       *)
(*                                                                         *)
(* Spec follows the messages through process_message; WebSpec follows one  *)
(* handle_web_task call (handlers/web.py) through its retry loop.          *)
(* OverlapSpec is Spec with as many permits as messages and web tasks that *)
(* crash the browser; ClassifySpec applies _classify_crawl_error to raw    *)
(* texts; CircuitSpec follows the LLM circuit breaker over several calls;  *)
(* ResolverSpec follows the recursion of the sitemap resolver              *)
(* (handlers/sitemap.py); ShutdownSpec follows the signal handler of       *)
(* main(); FileSpec follows one handle_file_task call (handlers/file.py);  *)
(* TransientSpec applies _is_transient_error to exceptions.                *)
(***************************************************************************)
EXTENDS Integers, Sequences, FiniteSets, TLC

(***************************************************************************)
(* Bounds of the model.                                                    *)
(***************************************************************************)
NumMsgs == 2        \* broker messages in flight
MaxInFlight == 1    \* configured NSQ_MAX_IN_FLIGHT (permits of the semaphore)
MaxRecords == 2     \* longest list a handler returns
MaxTouches == 2     \* keep-alive touch() calls observed per delivery
MaxCrawlers == 3    \* crawler instances ever constructed
MaxCalls == 5       \* handle_web_task calls that meet the circuit breaker
MaxOverlap == 2     \* of which so many are in progress at a time
TickS == 150        \* seconds the monotonic clock advances by in one step
MaxClock == 300     \* the clock is followed up to this many seconds
MaxSubs == 2        \* <loc> entries of a sitemap index
MaxFrames == 6      \* nested _resolve_sitemap calls the interpreter is followed to
MaxSignals == 2     \* SIGINT / SIGTERM deliveries
MaxDeliveries == 4  \* broker deliveries of one message (attempts counter)

Msgs == 1..NumMsgs

(***************************************************************************)
(* Text.  Messages are strings; case conversion and substring search are   *)
(* computed character by character.                                        *)
(***************************************************************************)
LowerAlpha == "abcdefghijklmnopqrstuvwxyz"
UpperAlpha == "ABCDEFGHIJKLMNOPQRSTUVWXYZ"

Char(s, i) == SubSeq(s, i, i)

MapChar(c, from, to) ==
    IF \E i \in 1..Len(from) : Char(from, i) = c
    THEN Char(to, CHOOSE i \in 1..Len(from) : Char(from, i) = c)
    ELSE c

RECURSIVE MapStr(_, _, _)
MapStr(s, from, to) ==
    IF Len(s) = 0 THEN ""
    ELSE MapChar(Char(s, 1), from, to) \o MapStr(SubSeq(s, 2, Len(s)), from, to)

\* str.upper() / str.lower()
Upper(s) == MapStr(s, LowerAlpha, UpperAlpha)
Lower(s) == MapStr(s, UpperAlpha, LowerAlpha)

\* kw in s
Contains(s, kw) ==
    \E i \in 1..(Len(s) - Len(kw) + 1) : SubSeq(s, i, i + Len(kw) - 1) = kw

\* any(kw in s for kw in kws)
ContainsAny(s, kws) == \E kw \in kws : Contains(s, kw)

\* str.strip(): the text without leading and trailing whitespace
Whitespace == {" ", "\n", "\t"}
RECURSIVE LStrip(_)
LStrip(s) ==
    IF Len(s) = 0 THEN ""
    ELSE IF Char(s, 1) \in Whitespace THEN LStrip(SubSeq(s, 2, Len(s)))
    ELSE s
RECURSIVE RStrip(_)
RStrip(s) ==
    IF Len(s) = 0 THEN ""
    ELSE IF Char(s, Len(s)) \in Whitespace THEN RStrip(SubSeq(s, 1, Len(s) - 1))
    ELSE s
Strip(s) == RStrip(LStrip(s))

(***************************************************************************)
(* exceptions.py: the error taxonomy.                                      *)
(***************************************************************************)
ERR_ENCRYPTED == "ERR_ENCRYPTED"
ERR_INVALID_FORMAT == "ERR_INVALID_FORMAT"
ERR_EMPTY == "ERR_EMPTY"
ERR_TIMEOUT == "ERR_TIMEOUT"
ERR_CRAWL_TIMEOUT == "ERR_CRAWL_TIMEOUT"
ERR_CRAWL_DNS == "ERR_CRAWL_DNS"
ERR_CRAWL_REFUSED == "ERR_CRAWL_REFUSED"
ERR_CRAWL_BLOCKED == "ERR_CRAWL_BLOCKED"

TRANSIENT_ERRORS == {ERR_TIMEOUT, ERR_CRAWL_TIMEOUT, ERR_CRAWL_DNS, ERR_CRAWL_REFUSED}

Taxonomy ==
    {ERR_ENCRYPTED, ERR_INVALID_FORMAT, ERR_EMPTY, ERR_TIMEOUT,
     ERR_CRAWL_TIMEOUT, ERR_CRAWL_DNS, ERR_CRAWL_REFUSED, ERR_CRAWL_BLOCKED}

\* Exception values: the class, the code (IngestionError only) and str(e).
IngestionError(code, message) == [type |-> "IngestionError", code |-> code, msg |-> message]
TimeoutError(message) == [type |-> "TimeoutError", code |-> "", msg |-> message]
ProcessExpired(message) == [type |-> "ProcessExpired", code |-> "", msg |-> message]
Exception(message) == [type |-> "Exception", code |-> "", msg |-> message]
NoException == [type |-> "None", code |-> "", msg |-> ""]

(***************************************************************************)
(* config.py: the retry settings.  The environment may override them; the  *)
(* model runs the defaults and one override in which the delay cap binds.  *)
(***************************************************************************)
retry_max_attempts == 3
retry_initial_delay_ms == 1000
retry_max_delay_ms == 60000
retry_backoff_multiplier == 2
CappedDelayMs == 3000

DefaultSettings ==
    [retry_max_attempts |-> retry_max_attempts,
     retry_initial_delay_ms |-> retry_initial_delay_ms,
     retry_max_delay_ms |-> retry_max_delay_ms,
     retry_backoff_multiplier |-> retry_backoff_multiplier]

SettingsProfiles ==
    {DefaultSettings, [DefaultSettings EXCEPT !.retry_max_delay_ms = CappedDelayMs]}

(***************************************************************************)
(* Inputs of the model: message bodies and what the external collaborators *)
(* (crawler, conversion pool, browser start-up) report.                    *)
(***************************************************************************)
WebTask ==
    [id |-> "t-web", type |-> "web", url |-> "http://ex.com",
     depth |-> 2, gemini_api_key |-> "k-secret"]
FileTask == [id |-> "t-file", type |-> "file", path |-> "/data/browser_timeout.pdf"]
OtherTask == [id |-> "t-other", type |-> "video", url |-> "http://ex.com/v"]

\* message.body: bytes that json.loads accepts (with the decoded object) or rejects
JsonBody(data) == [json |-> TRUE, data |-> data]
BadBody == [json |-> FALSE, data |-> <<>>]
Bodies == {JsonBody(WebTask), JsonBody(FileTask), JsonBody(OtherTask), BadBody}

\* result.error_message of a crawl whose success flag is false
CrawlErrorMessages ==
    {"net::ERR_TIMED_OUT", "blocked by robots.txt",
     "browser has been closed", "net::ERR_BLOCKED_BY_CLIENT at /browser"}

\* result.markdown of a successful crawl: the MarkdownGenerationResult of
\* crawl4ai 0.5 (fit_markdown, raw_markdown) or the plain string of older ones
MarkdownResult(fit, raw) == [kind |-> "object", fit_markdown |-> fit, raw_markdown |-> raw]
MarkdownStr(text) == [kind |-> "str", text |-> text]
Markdowns ==
    {MarkdownResult("# Doc", "# Doc [a](/a)"), MarkdownResult("", "# Doc"),
     MarkdownResult(" \n", ""), MarkdownResult("", " \n"),
     MarkdownStr("# Doc"), MarkdownStr("")}

\* the sitemap URLs of the site; the first is base_url + "/sitemap.xml"
SitemapUrls == {"http://ex.com/sitemap.xml", "http://ex.com/sitemap-b.xml"}

\* result["content"] of a conversion the pool completed
PoolContents == {"# Doc", "", " \n"}

\* what the future of the conversion pool raises
PoolErrors ==
    {TimeoutError(""), Exception("File is password protected"),
     Exception("Connection reset by peer"), Exception("corrupt xref table")}

\* what AsyncWebCrawler.start() raises when the browser does not come up
StartErrors ==
    {TimeoutError(""), Exception("chromium executable missing"),
     Exception("BrowserType.launch: executable not found")}

\* what message.touch() raises when the connection to the broker is lost
TouchError == Exception("Stream is closed")

(***************************************************************************)
(* handlers/web.py                                                         *)
(***************************************************************************)
\* faulty variant: the DNS keywords are looked for before the timeout keywords
_classify_dns_first(message) ==
    LET msg_upper == Upper(message) IN
    IF Contains(msg_upper, "ERR_NAME_NOT_RESOLVED") \/ Contains(msg_upper, "DNS")
    THEN IngestionError(ERR_CRAWL_DNS, message)
    ELSE IF Contains(msg_upper, "TIMED_OUT") \/ Contains(msg_upper, "TIMEOUT")
    THEN IngestionError(ERR_CRAWL_TIMEOUT, message)
    ELSE IF ContainsAny(msg_upper,
                {"ERR_CONNECTION_REFUSED", "ERR_CONNECTION_RESET",
                 "ERR_CONNECTION_CLOSED", "ECONNREFUSED", "ECONNRESET"})
    THEN IngestionError(ERR_CRAWL_REFUSED, message)
    ELSE IF Contains(msg_upper, "ROBOTS") \/ Contains(msg_upper, "BLOCKED")
            \/ Contains(msg_upper, "FORBIDDEN")
    THEN IngestionError(ERR_CRAWL_BLOCKED, message)
    ELSE IngestionError(ERR_CRAWL_TIMEOUT, message)

\* web.py 86-119
_classify_crawl_error(error_message) ==
    LET msg_upper == Upper(error_message) IN
    IF Contains(msg_upper, "TIMED_OUT") \/ Contains(msg_upper, "TIMEOUT")
    THEN IngestionError(ERR_CRAWL_TIMEOUT, error_message)
    ELSE IF Contains(msg_upper, "ERR_NAME_NOT_RESOLVED") \/ Contains(msg_upper, "DNS")
    THEN IngestionError(ERR_CRAWL_DNS, error_message)
    ELSE IF ContainsAny(msg_upper,
                {"ERR_CONNECTION_REFUSED", "ERR_CONNECTION_RESET",
                 "ERR_CONNECTION_CLOSED", "ECONNREFUSED", "ECONNRESET"})
    THEN IngestionError(ERR_CRAWL_REFUSED, error_message)
    ELSE IF Contains(msg_upper, "ROBOTS") \/ Contains(msg_upper, "BLOCKED")
            \/ Contains(msg_upper, "FORBIDDEN")
    THEN IngestionError(ERR_CRAWL_BLOCKED, error_message)
    ELSE IngestionError(ERR_CRAWL_TIMEOUT, error_message)

\* web.py 184-209: fit_markdown when it holds text, else raw_markdown
_get_embedding_content(md) ==
    IF md.kind = "object"
    THEN IF md.fit_markdown # "" /\ Strip(md.fit_markdown) # ""
         THEN md.fit_markdown
         ELSE md.raw_markdown
    ELSE md.text

\* Retry configuration for transient crawl errors
CRAWL_MAX_RETRIES == 2
CRAWL_INITIAL_BACKOFF_S == 2

\* str.find(sub, start): the first position of sub in s at or after start, 0
\* when there is none
Find(s, sub, start) ==
    LET hits == {i \in start..(Len(s) - Len(sub) + 1) : SubSeq(s, i, i + Len(sub) - 1) = sub}
    IN  IF hits = {} THEN 0 ELSE CHOOSE i \in hits : \A j \in hits : i <= j

\* the first position at or after start of a character of the set, 0 if none
FindAny(s, chars, start) ==
    LET hits == {i \in start..Len(s) : Char(s, i) \in chars}
    IN  IF hits = {} THEN 0 ELSE CHOOSE i \in hits : \A j \in hits : i <= j

\* urlparse(u): where the scheme ends (the position of its ":"), 0 when u has
\* no scheme; a scheme is a run of letters before the first ":"
SchemeEnd(u) ==
    LET colon == Find(u, ":", 1) IN
    IF colon > 1 /\ \A i \in 1..(colon - 1) :
                        Contains(LowerAlpha, Char(u, i)) \/ Contains(UpperAlpha, Char(u, i))
    THEN colon ELSE 0

\* urlparse(u): the text after the scheme
AfterScheme(u) == SubSeq(u, SchemeEnd(u) + 1, Len(u))

\* urlparse(u).netloc: what follows "//" up to the next "/", "?" or "#"; it
\* is neither lower-cased nor stripped of a port or "www."
Netloc(u) ==
    LET rest == AfterScheme(u) IN
    IF SubSeq(rest, 1, 2) # "//" THEN ""
    ELSE LET stop == FindAny(rest, {"/", "?", "#"}, 3)
         IN  SubSeq(rest, 3, IF stop = 0 THEN Len(rest) ELSE stop - 1)

\* urlparse(u).path
UrlPath(u) ==
    LET rest == AfterScheme(u)
        tail == IF SubSeq(rest, 1, 2) = "//"
                THEN SubSeq(rest, 3 + Len(Netloc(u)), Len(rest))
                ELSE rest
        stop == FindAny(tail, {"?", "#"}, 1)
    IN  SubSeq(tail, 1, IF stop = 0 THEN Len(tail) ELSE stop - 1)

\* the last position of "/" in s, 0 if none
LastSlash(s) ==
    LET hits == {i \in 1..Len(s) : Char(s, i) = "/"}
    IN  IF hits = {} THEN 0 ELSE CHOOSE i \in hits : \A j \in hits : i >= j

\* urljoin(base, link) for links without dot segments: an absolute link is
\* kept, "//host/.." takes the scheme of base, "/path" its scheme and host,
\* "#.." and "?.." its path too, any other link replaces the last segment
urljoin(base, link) ==
    LET origin == SubSeq(base, 1, SchemeEnd(base)) \o "//" \o Netloc(base)
        path == UrlPath(base)
    IN  IF link = "" THEN base
        ELSE IF SchemeEnd(link) # 0 THEN link
        ELSE IF SubSeq(link, 1, 2) = "//" THEN SubSeq(base, 1, SchemeEnd(base)) \o link
        ELSE IF Char(link, 1) = "/" THEN origin \o link
        ELSE IF Char(link, 1) \in {"#", "?"} THEN origin \o path \o link
        ELSE origin \o SubSeq(path, 1, LastSlash(path))
                    \o (IF LastSlash(path) = 0 THEN "/" ELSE "") \o link

\* re.findall(r"\[.*?\]\((.*?)\)", raw_md) from position start on, for
\* markdown whose links do not span lines
RECURSIVE MarkdownLinks(_, _)
MarkdownLinks(raw_md, start) ==
    LET open == Find(raw_md, "[", start)
        mid == IF open = 0 THEN 0 ELSE Find(raw_md, "](", open + 1)
        close == IF mid = 0 THEN 0 ELSE Find(raw_md, ")", mid + 2)
    IN  IF close = 0 THEN {}
        ELSE IF Contains(SubSeq(raw_md, open, close), "\n")
        THEN MarkdownLinks(raw_md, open + 1)
        ELSE {SubSeq(raw_md, mid + 2, close - 1)} \cup MarkdownLinks(raw_md, close + 1)

\* web.py 122-135
_get_raw_markdown(md) == IF md.kind = "object" THEN md.raw_markdown ELSE md.text

\* web.py 163: the filter on the links found in the markdown
IsInternal(full_url, base_domain) == Netloc(full_url) = base_domain

\* web.py 138-167, the links of extract_web_metadata: the hrefs of
\* result.links["internal"] as they are, and the markdown links that resolve
\* to the network location of the request URL; a set, so de-duplicated
extract_web_metadata(result, request_url) ==
    LET internal_links == {link.href : link \in {l \in result.links : "href" \in DOMAIN l}}
        raw_md == _get_raw_markdown(result.markdown)
        base_domain == Netloc(request_url)
        markdown_links == {urljoin(request_url, link) : link \in MarkdownLinks(raw_md, 1)}
    IN  internal_links
        \cup {full_url \in markdown_links : IsInternal(full_url, base_domain)}

\* sitemap.py 197-235, fetch_sitemap_urls_with_index: of the <loc> entries
\* the sitemaps hold, those on the network location of base_url
fetch_sitemap_urls_with_index(base_url, locs) ==
    {u \in locs : Netloc(u) = Netloc(base_url)}

\* The exceptions handle_web_task raises to process_message: the classified
\* error of the failed crawl (terminal at once, transient after the retries).
WebHandlerErrors == {_classify_crawl_error(m) : m \in CrawlErrorMessages}

(***************************************************************************)
(* handlers/file.py                                                        *)
(***************************************************************************)
\* Pre-flight validation of handle_file_task: the error of a missing or
\* empty file.
PreflightErrors(file_path) ==
    {IngestionError(ERR_INVALID_FORMAT, "File not found: " \o file_path),
     IngestionError(ERR_EMPTY, "File is empty (0 bytes)")}

\* file.py 180
MAX_FILE_SIZE_BYTES == 200 * 1024 * 1024

\* faulty variant: the size is looked at before the kind of the path
PreflightSizeFirst(path, stat) ==
    IF stat.size = 0
    THEN IngestionError(ERR_EMPTY, "File is empty (0 bytes)")
    ELSE IF stat.size > MAX_FILE_SIZE_BYTES
    THEN IngestionError(ERR_INVALID_FORMAT,
                        "File too large: " \o ToString(stat.size) \o " bytes (limit: "
                            \o ToString(MAX_FILE_SIZE_BYTES) \o ")")
    ELSE IF ~stat.is_file
    THEN IngestionError(ERR_INVALID_FORMAT, "File not found: " \o path)
    ELSE NoException

\* file.py 204-214: what the pre-flight validation raises for the path, given
\* what os.path.isfile and os.path.getsize say of it
Preflight(path, stat) ==
    IF ~stat.is_file
    THEN IngestionError(ERR_INVALID_FORMAT, "File not found: " \o path)
    ELSE IF stat.size = 0
    THEN IngestionError(ERR_EMPTY, "File is empty (0 bytes)")
    ELSE IF stat.size > MAX_FILE_SIZE_BYTES
    THEN IngestionError(ERR_INVALID_FORMAT,
                        "File too large: " \o ToString(stat.size) \o " bytes (limit: "
                            \o ToString(MAX_FILE_SIZE_BYTES) \o ")")
    ELSE NoException

\* faulty variant: the password keywords are looked for before "timeout"
FileFailurePasswordFirst(e) ==
    IF e.type \in {"TimeoutError", "ProcessExpired"}
    THEN IngestionError(ERR_TIMEOUT,
                        "Processing timed out and worker process was terminated")
    ELSE IF e.type = "IngestionError" THEN e
    ELSE LET err_msg == Lower(e.msg) IN
         IF Contains(err_msg, "password") \/ Contains(err_msg, "encrypted")
         THEN IngestionError(ERR_ENCRYPTED, "File is password protected")
         ELSE IF Contains(err_msg, "timeout")
         THEN IngestionError(ERR_TIMEOUT, "Processing timed out")
         ELSE IF Contains(err_msg, "format")
         THEN IngestionError(ERR_INVALID_FORMAT, "Invalid file format")
         ELSE e

\* The except clauses of handle_file_task: what it raises for exception e.
FileFailure(e) ==
    IF e.type \in {"TimeoutError", "ProcessExpired"}
    THEN IngestionError(ERR_TIMEOUT,
                        "Processing timed out and worker process was terminated")
    ELSE IF e.type = "IngestionError" THEN e
    ELSE LET err_msg == Lower(e.msg) IN
         IF Contains(err_msg, "timeout")
         THEN IngestionError(ERR_TIMEOUT, "Processing timed out")
         ELSE IF Contains(err_msg, "password") \/ Contains(err_msg, "encrypted")
         THEN IngestionError(ERR_ENCRYPTED, "File is password protected")
         ELSE IF Contains(err_msg, "format")
         THEN IngestionError(ERR_INVALID_FORMAT, "Invalid file format")
         ELSE e

\* file.py 235-258: the conversion completed with the given content; text
\* that is empty after strip() is an error, else the record is returned
FileOutcome(content) ==
    IF Strip(content) = ""
    THEN [kind |-> "raised", content |-> "",
          exc |-> FileFailure(IngestionError(ERR_EMPTY, "File contains no text"))]
    ELSE [kind |-> "returned", content |-> content, exc |-> NoException]

FileHandlerErrors == {FileFailure(e) : e \in PoolErrors}

(***************************************************************************)
(* main.py: pure helpers                                                   *)
(***************************************************************************)
\* faulty variant: the text of an IngestionError is not looked at
_is_transient_by_kind(e) ==
    IF e.type = "TimeoutError" THEN TRUE
    ELSE IF e.type = "IngestionError" THEN e.code \in TRANSIENT_ERRORS
    ELSE ContainsAny(Upper(e.msg),
            {"TIMEOUT", "TIMED_OUT", "CONNECTION", "ERR_NAME_NOT_RESOLVED", "ECONNREFUSED"})

\* main.py 35-51
_is_transient_error(e) ==
    IF e.type = "TimeoutError" THEN TRUE
    ELSE IF e.type = "IngestionError" /\ e.code \in TRANSIENT_ERRORS THEN TRUE
    ELSE ContainsAny(Upper(e.msg),
            {"TIMEOUT", "TIMED_OUT", "CONNECTION", "ERR_NAME_NOT_RESOLVED", "ECONNREFUSED"})

_BROWSER_CRASH_KEYWORDS ==
    {"browser", "target closed", "session closed", "protocol error",
     "browser has been closed", "connection refused"}

\* faulty variant: the message is compared with the keywords, not searched
IsCrashExact(e) == Lower(e.msg) \in _BROWSER_CRASH_KEYWORDS

\* any(kw in str(e).lower() for kw in _BROWSER_CRASH_KEYWORDS)
IsBrowserCrash(e) == ContainsAny(Lower(e.msg), _BROWSER_CRASH_KEYWORDS)

RECURSIVE Pow(_, _)
Pow(b, n) == IF n = 0 THEN 1 ELSE b * Pow(b, n - 1)

Min(a, b) == IF a < b THEN a ELSE b

\* delay of the requeue for a delivery with the given attempts counter
RequeueDelay(s, attempts) ==
    LET backoff_factor == Pow(s.retry_backoff_multiplier, attempts - 1)
    IN  Min(s.retry_initial_delay_ms * backoff_factor, s.retry_max_delay_ms)

\* dict.get(key, default)
Get(d, key, default) == IF key \in DOMAIN d THEN d[key] ELSE default

(***************************************************************************)
(* main.py: the payloads process_message publishes                         *)
(***************************************************************************)
\* the i-th record of the list a handler returned for the task; part, its
\* position in the list, stands for what tells the records of one list apart
Record(data, i, content) ==
    [url |-> Get(data, "url", Get(data, "path", "")), content |-> content, part |-> i]

\* faulty variant: the success payload echoes the decoded task
SuccessPayloadWithTask(data, res) ==
    [source_id |-> Get(data, "id", "unknown"),
     correlation_id |-> Get(data, "id", "unknown"),
     content |-> res.content,
     url |-> res.url,
     part |-> res.part,
     status |-> "success",
     depth |-> Get(data, "depth", 0),
     original_payload |-> data]

SuccessPayload(data, res) ==
    [source_id |-> Get(data, "id", "unknown"),
     correlation_id |-> Get(data, "id", "unknown"),
     content |-> res.content,
     url |-> res.url,
     part |-> res.part,
     status |-> "success",
     depth |-> Get(data, "depth", 0)]

\* faulty variant: an empty result is reported as a success without content
EmptyResultAsSuccess(data) ==
    [source_id |-> Get(data, "id", "unknown"),
     correlation_id |-> Get(data, "id", "unknown"),
     status |-> "success",
     url |-> Get(data, "url", ""),
     content |-> ""]

EmptyResultPayload(data) ==
    [source_id |-> Get(data, "id", "unknown"),
     correlation_id |-> Get(data, "id", "unknown"),
     status |-> "failed",
     error |-> "No content extracted",
     url |-> Get(data, "url", ""),
     content |-> ""]

IngestionFailurePayload(data, e) ==
    [source_id |-> Get(data, "id", "unknown"),
     correlation_id |-> Get(data, "id", "unknown"),
     status |-> "failed",
     code |-> e.code,
     error |-> "[" \o e.code \o "] " \o e.msg,
     url |-> IF Get(data, "url", "") # "" THEN Get(data, "url", "") ELSE Get(data, "path", ""),
     original_payload |-> data]

GenericFailurePayload(data, e) ==
    [source_id |-> Get(data, "id", "unknown"),
     correlation_id |-> Get(data, "id", "unknown"),
     status |-> "failed",
     error |-> e.msg,
     url |-> Get(data, "url", ""),
     content |-> "",
     original_payload |-> data]

\* Calls on the broker, as process_message makes them.
PubCall(payload, failed) == [op |-> "pub", payload |-> payload, failed |-> failed]
FinishCall(failed) == [op |-> "finish", failed |-> failed]
RequeueCall(delay, backoff, failed) ==
    [op |-> "requeue", delay |-> delay, backoff |-> backoff, failed |-> failed]

\* what producer.pub, message.finish and message.requeue raise when they fail
BrokerError == Exception("no open connections")

\* faulty variant: the broker call is not wrapped, what it raises propagates
Reraised(raised) == raised

\* try: <broker call> except Exception as e: logger.error(...)
\* -- the exception that leaves the statement when the call raised `raised`
LoggedNotRaised(raised) == NoException

\* the requeue decisions of the two except clauses
RequeueIngestionError(e, s, n_attempts) ==
    e.code \in TRANSIENT_ERRORS /\ n_attempts <= s.retry_max_attempts

\* faulty variant: every failure within the attempts budget is retried
RequeueAnyError(e, s, n_attempts) == n_attempts <= s.retry_max_attempts

RequeueOtherError(e, s, n_attempts) ==
    _is_transient_error(e) /\ n_attempts <= s.retry_max_attempts

CancelledError == [type |-> "CancelledError", code |-> "", msg |-> ""]
JSONDecodeError == Exception("Expecting value: line 1 column 1 (char 0)")

\* what json.loads(message.body) raises on bytes that are no JSON document
DecodeErrors ==
    {JSONDecodeError,
     Exception("Extra data: line 1 column 3 (char 2)"),
     Exception("'utf-8' codec can't decode byte 0xff in position 0: invalid start byte")}

(***************************************************************************)
(* State                                                                   *)
(***************************************************************************)
VARIABLES
    env,           \* what the environment may do to each message (fixed by Init)
    settings,      \* config.settings (retry fields)
    capacity,      \* settings.nsq_max_in_flight, the size of WORKER_SEMAPHORE
    producer,      \* main.producer is set (TRUE) or None (FALSE)
    CRAWLER,       \* main.CRAWLER: 0 for None, else the crawler instance
    crawlers,      \* state of every AsyncWebCrawler instance
    sem_value,     \* WORKER_SEMAPHORE: free permits
    sem_waiters,   \* WORKER_SEMAPHORE: tasks blocked in acquire(), in order
    sem_granted,   \* waiters whose acquire() has been handed a permit
    running,       \* the process_message task the event loop is executing (0: none)
    body,          \* message.body
    attempts,      \* message.attempts
    pc,            \* position of the process_message task
    tpc,           \* position of its touch_loop task
    stop_touch,    \* the stop_touch event is set
    cancel_req,    \* current_task.cancel() was called and is not yet delivered
    touch_failed,  \* message.touch() raised
    touches,       \* message.touch() calls of this delivery
    has_source_id, \* "source_id" in locals()
    results,       \* len(results_list)
    pub_idx,       \* records of results_list published so far
    exc,           \* the exception in flight (NoException if none)
    hres,          \* what the handler did: returned n records / raised exc
    cid,           \* the crawler instance the task is starting, using or closing
    restarted,     \* restart_crawler was called for this delivery
    raised,        \* an exception is propagating out of process_message
    events,        \* the calls this delivery made on the broker, in order
    logs,          \* the log records this delivery emitted
    crawl_url,     \* handle_web_task: the url argument
    web_pc,        \* handle_web_task: position of the call
    attempt,       \* handle_web_task: the loop variable
    last_error,    \* handle_web_task: last_error
    meta,          \* handle_web_task: meta["links"] of the attempt that succeeded
    crawl_result,  \* handle_web_task: result of the attempt that succeeded
    arun_calls,    \* crawler.arun calls of the handle_web_task call
    sleeps,        \* the delays handed to asyncio.sleep, in order
    errors,        \* the error of every failed attempt, in order
    web_out,       \* what the call returned or raised
    sitemap,       \* what fetch_sitemap_urls_with_index did in the call
    raw_message,   \* _classify_crawl_error: its argument
    classified,    \* _classify_crawl_error: the error it returned
    formatted,     \* the text a classified error was formatted to
    reclassified,  \* _classify_crawl_error of the formatted text
    _llm_consecutive_failures,  \* web.py 54
    _llm_circuit_open_until,    \* web.py 55
    now,           \* time.monotonic(), in seconds
    calls,         \* the handle_web_task calls that meet the circuit breaker
    succeeded,     \* the calls that succeeded, in order, with what they succeeded
    opened_at,     \* the time the circuit was last opened at (-1: never)
    sitemaps,      \* what a GET of each sitemap URL of the site yields
    frames,        \* the _resolve_sitemap calls in progress, outermost first
    gets,          \* the client.get calls made so far
    get_depths,    \* the depths of the _resolve_sitemap calls that made them
    cuts,          \* the _resolve_sitemap calls that returned at the depth test
    all_urls,      \* what fetch_sitemap_urls_with_index returned
    loop,          \* the event loop of main(): running, stopping or stopped
    reader,        \* the nsq.Reader: open, closed, or its close() raised
    writer,        \* the nsq.Writer behind producer: open, closed, or its close() raised
    pending,       \* signals delivered whose handler has not run yet
    shutdowns,     \* runs of shutdown() so far
    close_faults,  \* the close() calls that raise
    closes,        \* the close() calls made, in order
    close_task,    \* what became of the CRAWLER.close() coroutine
    file_path,     \* handle_file_task: its argument
    file_stat,     \* what the file system holds at file_path
    _executor,     \* file.py 183: the process pool (none, active or inactive)
    pool_calls,    \* the pool constructions and pool.schedule calls, in order
    file_pc,       \* position of the handle_file_task call
    pool_result,   \* what the future of the conversion returned or raised
    file_out,      \* what the call returned or raised
    probe,         \* _is_transient_error: its argument
    verdict        \* _is_transient_error: whether it was called, and its result

vars ==
    <<env, settings, capacity, producer, CRAWLER, crawlers, sem_value, sem_waiters,
      sem_granted, running, body, attempts, pc, tpc, stop_touch, cancel_req,
      touch_failed, touches, has_source_id, results, pub_idx, exc, hres, cid,
      restarted, raised, events, logs, crawl_url, web_pc, attempt, last_error, meta,
      crawl_result, arun_calls, sleeps, errors, web_out, sitemap, raw_message,
      classified, formatted, reclassified, _llm_consecutive_failures,
      _llm_circuit_open_until, now, calls, succeeded, opened_at, sitemaps, frames,
      gets, get_depths, cuts, all_urls, loop, reader, writer, pending, shutdowns,
      close_faults, closes, close_task, file_path, file_stat, _executor, pool_calls,
      file_pc, pool_result, file_out, probe, verdict>>

\* the state of process_message and of its collaborators
mainVars ==
    <<env, settings, capacity, producer, CRAWLER, crawlers, sem_value, sem_waiters,
      sem_granted, running, body, attempts, pc, tpc, stop_touch, cancel_req,
      touch_failed, touches, has_source_id, results, pub_idx, exc, hres, cid,
      restarted, raised, events, logs>>

\* the state of one handle_web_task call
webVars ==
    <<crawl_url, web_pc, attempt, last_error, meta, crawl_result, arun_calls, sleeps,
      errors, web_out, sitemap>>

\* the state of one _classify_crawl_error call and of its round trip
classifyVars == <<raw_message, classified, formatted, reclassified>>

\* the state of the parts that are followed on their own
\* the LLM circuit breaker and the calls that read and write it
circuitVars ==
    <<_llm_consecutive_failures, _llm_circuit_open_until, now, calls, succeeded, opened_at>>

\* the state of one fetch_sitemap_urls_with_index call
resolverVars == <<sitemaps, frames, gets, get_depths, cuts, all_urls>>

\* the state of main()'s event loop and of shutdown()
shutdownVars ==
    <<loop, reader, writer, pending, shutdowns, close_faults, closes, close_task>>

\* the state of one handle_file_task call
fileVars ==
    <<file_path, file_stat, _executor, pool_calls, file_pc, pool_result, file_out>>

\* the state of one _is_transient_error call
transientVars == <<probe, verdict>>

otherVars ==
    <<classifyVars, circuitVars, resolverVars, shutdownVars, fileVars, transientVars>>

configVars == <<env, settings, capacity, producer>>
crawlerVars == <<CRAWLER, crawlers>>
semVars == <<sem_value, sem_waiters, sem_granted>>
touchVars == <<tpc, stop_touch, cancel_req, touch_failed, touches>>
\* the state of process_message but the crawler's
mainRest ==
    <<env, settings, capacity, producer, sem_value, sem_waiters, sem_granted, running,
      body, attempts, pc, tpc, stop_touch, cancel_req, touch_failed, touches,
      has_source_id, results, pub_idx, exc, hres, cid, restarted, raised, events, logs>>

msgVars == <<body, attempts>>

\* positions at which the process_message task is suspended in an await
SuspendedPcs ==
    {"sem_wait", "crawler_start", "in_handler", "restart_close", "restart_start",
     "join_touch"}

\* positions inside the `async with WORKER_SEMAPHORE` block
GatedPcs ==
    {"dispatch", "crawler_start", "in_handler", "crash_check", "restart_close",
     "restart_reinit", "restart_start", "exit_gate"}

\* The environment of a message: the record counts its handler may return, the
\* kinds of fault it may meet (handler, crawler, broker, touch), the touch()
\* calls and the deliveries the model follows.
AllFaults == {"handler", "crawler", "broker", "touch", "empty"}
FullEnv ==
    [counts |-> 0..MaxRecords, faults |-> AllFaults, touches |-> MaxTouches,
     deliveries |-> MaxDeliveries]
PlainEnv == [counts |-> {1}, faults |-> {}, touches |-> 1, deliveries |-> 1]

\* whether a call of the given kind fails for message m
Fails(m, kind) == IF kind \in env[m].faults THEN BOOLEAN ELSE {FALSE}

NoResult == [kind |-> "none", n |-> 0, exc |-> NoException, content |-> ""]

Data(m) == body[m].data
TaskType(m) == Get(Data(m), "type", "unknown")

(***************************************************************************)
(* main.py: the log records of process_message and the crawler life cycle  *)
(***************************************************************************)
\* faulty variant: the decoded body is logged as it is
UnredactedData(data) == data

\* main.py 153: {k: v for k, v in data.items() if k != "gemini_api_key"}
safe_data(data) == [k \in DOMAIN data \ {"gemini_api_key"} |-> data[k]]

\* main.py 146-150: the context bound for the task, which structlog merges
\* into every record
BoundContext(data) ==
    [correlation_id |-> Get(data, "id", "unknown"),
     operation |-> "process_message",
     task_type |-> Get(data, "type", "unknown")]

\* a record of the logger: the event, its keyword arguments and the context
LogRecord(m, event, fields) ==
    IF body[m].json
    THEN ("event" :> event) @@ fields @@ BoundContext(Data(m))
    ELSE ("event" :> event) @@ fields

\* main.py 154
MessageReceived(m) == LogRecord(m, "message_received", [data |-> safe_data(Data(m))])

\* `source_id if "source_id" in locals() else "unknown"`
SourceId(m) == IF has_source_id[m] THEN Get(Data(m), "id", "unknown") ELSE "unknown"

\* main.py 195-204 / 216-225: the callback of a publish that went through,
\* or the record of one that raised
PublishLogs(m, url, failed) ==
    IF failed
    THEN {LogRecord(m, "pub_failed", [source_id |-> SourceId(m), error |-> BrokerError.msg])}
    ELSE IF results[m] > 0
    THEN {LogRecord(m, "result_published", [source_id |-> SourceId(m), url |-> url])}
    ELSE {LogRecord(m, "failure_reported", [source_id |-> SourceId(m), reason |-> "empty_results"])}

\* main.py 227-237
FinishLogs(m, failed) ==
    (IF failed THEN {LogRecord(m, "finish_failed", [error |-> BrokerError.msg])} ELSE {})
    \cup {LogRecord(m, "message_processed", [results_count |-> results[m]])}

\* main.py 239-359: the records of the except clause that handles e, given
\* whether it requeues, whether it publishes and whether the broker call fails
ExceptLogs(m, e, requeues, publishes, failed) ==
    IF e.type = "CancelledError"
    THEN {LogRecord(m, "processing_cancelled_due_to_connection_loss",
                    [source_id |-> SourceId(m)])}
    ELSE IF e.type = "IngestionError"
    THEN {LogRecord(m, "ingestion_error", [error |-> e.msg, code |-> e.code])}
         \cup (IF requeues
               THEN {LogRecord(m, "task_requeue_transient_ingestion_error",
                               [source_id |-> SourceId(m), attempt |-> attempts[m],
                                delay_ms |-> RequeueDelay(settings, attempts[m]),
                                code |-> e.code, error |-> e.msg])}
                    \cup (IF failed
                          THEN {LogRecord(m, "requeue_failed", [error |-> BrokerError.msg])}
                          ELSE {})
               ELSE IF publishes
               THEN (IF failed
                     THEN {LogRecord(m, "pub_failed_in_error_handler",
                                     [error |-> BrokerError.msg])}
                     ELSE {LogRecord(m, "failure_reported",
                                     [source_id |-> SourceId(m), code |-> e.code])})
               ELSE {})
    ELSE IF requeues
    THEN {LogRecord(m, "task_requeue_transient_error",
                    [source_id |-> SourceId(m), attempt |-> attempts[m],
                     delay_ms |-> RequeueDelay(settings, attempts[m]), error |-> e.msg])}
         \cup (IF failed
               THEN {LogRecord(m, "requeue_failed", [error |-> BrokerError.msg])}
               ELSE {})
    ELSE {LogRecord(m, "message_processing_failed",
                    [error |-> e.msg, attempts |-> attempts[m]])}
         \cup (IF ~publishes THEN {}
               ELSE IF failed
               THEN {LogRecord(m, "pub_failed_in_error_handler", [error |-> BrokerError.msg])}
               ELSE {LogRecord(m, "failure_reported", [source_id |-> SourceId(m)])})

\* main.py 289-292 / 356-359
ExceptFinishLogs(m, failed) ==
    IF failed
    THEN {LogRecord(m, "finish_failed_in_error_handler", [error |-> BrokerError.msg])}
    ELSE {}

\* init_crawler 56-65: the records up to the failure e of the constructor or
\* of start(), or to the start (NoException)
InitCrawlerLogs(m, at_start, e) ==
    (IF at_start THEN {}
     ELSE {LogRecord(m, "initializing_global_crawler", [operation |-> "init_crawler"])})
    \cup (IF e = NoException
          THEN (IF at_start
                THEN {LogRecord(m, "global_crawler_started", [operation |-> "init_crawler"])}
                ELSE {})
          ELSE {LogRecord(m, "global_crawler_init_failed",
                          [operation |-> "init_crawler", error |-> e.msg])})

\* the logger emits the records
Emit(m, records) == logs' = [logs EXCEPT ![m] = @ \cup records]

\* main() has set the producer and the semaphore up; no message is in progress
NoMessageYet ==
    /\ producer = TRUE
    /\ sem_value = capacity
    /\ sem_waiters = <<>>
    /\ sem_granted = {}
    /\ running = 0
    /\ attempts = [m \in Msgs |-> 1]
    /\ pc = [m \in Msgs |-> "queued"]
    /\ tpc = [m \in Msgs |-> "none"]
    /\ stop_touch = [m \in Msgs |-> FALSE]
    /\ cancel_req = [m \in Msgs |-> FALSE]
    /\ touch_failed = [m \in Msgs |-> FALSE]
    /\ touches = [m \in Msgs |-> 0]
    /\ has_source_id = [m \in Msgs |-> FALSE]
    /\ results = [m \in Msgs |-> 0]
    /\ pub_idx = [m \in Msgs |-> 0]
    /\ exc = [m \in Msgs |-> NoException]
    /\ hres = [m \in Msgs |-> NoResult]
    /\ cid = [m \in Msgs |-> 0]
    /\ restarted = [m \in Msgs |-> FALSE]
    /\ raised = [m \in Msgs |-> FALSE]
    /\ events = [m \in Msgs |-> <<>>]
    /\ logs = [m \in Msgs |-> {}]

\* main() has set the producer and the crawler up; no message was handled yet
WorkerStarted ==
    /\ CRAWLER = 1
    /\ crawlers = [c \in 1..MaxCrawlers |-> IF c = 1 THEN "started" ELSE "unused"]
    /\ NoMessageYet

MainInit ==
    /\ env = [m \in Msgs |-> IF m = 1 THEN FullEnv ELSE PlainEnv]
    /\ settings \in SettingsProfiles
    /\ capacity \in 1..MaxInFlight
    /\ body \in [Msgs -> Bodies]
    /\ \A m \in Msgs : env[m] = PlainEnv => body[m] = JsonBody(WebTask)
    /\ WorkerStarted

\* no handle_web_task call is followed step by step
NoCrawlResult == [markdown |-> MarkdownStr(""), links |-> {}, url |-> ""]
NoOutcome == [kind |-> "none", records |-> <<>>, exc |-> NoException]
NoSitemap == [called |-> FALSE, raised |-> FALSE, urls |-> {}, appended |-> {}]
WebIdle ==
    /\ crawl_url = ""
    /\ web_pc = "idle"
    /\ attempt = 0
    /\ last_error = NoException
    /\ meta = {}
    /\ crawl_result = NoCrawlResult
    /\ arun_calls = 0
    /\ sleeps = <<>>
    /\ errors = <<>>
    /\ web_out = NoOutcome
    /\ sitemap = NoSitemap

\* no _classify_crawl_error call is followed on its own
ClassifyIdle ==
    /\ raw_message = ""
    /\ classified = NoException
    /\ formatted = ""
    /\ reclassified = NoException

\* web.py 54-55: the circuit breaker as the module is loaded; no call is
\* followed
IdleCall == [state |-> "idle", url |-> "", generator |-> "", since_open |-> -1]
CircuitClosed ==
    /\ _llm_consecutive_failures = 0
    /\ _llm_circuit_open_until = 0
    /\ now = 0
    /\ calls = [c \in 1..MaxCalls |-> IdleCall]
    /\ succeeded = <<>>
    /\ opened_at = -1

\* no fetch_sitemap_urls_with_index call is followed on its own
NoSitemapDoc == [kind |-> "error", locs |-> {}, subs |-> <<>>]
NotResolved == [state |-> "idle", urls |-> {}]
ResolverIdle ==
    /\ sitemaps = [u \in SitemapUrls |-> NoSitemapDoc]
    /\ frames = <<>>
    /\ gets = 0
    /\ get_depths = {}
    /\ cuts = 0
    /\ all_urls = NotResolved

\* main.py 380-426: the loop runs, no signal was delivered
LoopRunning ==
    /\ loop = "running"
    /\ reader = "open"
    /\ writer = "open"
    /\ pending = 0
    /\ shutdowns = 0
    /\ closes = <<>>
    /\ close_task = "none"

NoSignal == LoopRunning /\ close_faults = {}

\* no handle_file_task call is followed on its own
NoFile == [is_file |-> FALSE, size |-> 0]
NoPoolResult == [kind |-> "none", content |-> "", exc |-> NoException]
FileIdle ==
    /\ file_path = ""
    /\ file_stat = NoFile
    /\ _executor = "none"
    /\ pool_calls = <<>>
    /\ file_pc = "idle"
    /\ pool_result = NoPoolResult
    /\ file_out = NoOutcome

\* no _is_transient_error call is followed on its own
NoVerdict == [called |-> FALSE, transient |-> FALSE]
TransientIdle ==
    /\ probe = NoException
    /\ verdict = NoVerdict

OthersIdle ==
    ClassifyIdle /\ CircuitClosed /\ ResolverIdle /\ NoSignal /\ FileIdle /\ TransientIdle

Init == MainInit /\ WebIdle /\ OthersIdle

(***************************************************************************)
(* asyncio.Semaphore (WORKER_SEMAPHORE)                                    *)
(***************************************************************************)
\* faulty variant: acquire() never blocks
SemNeverLocked == FALSE

\* Semaphore.locked(): no free permit, or tasks already queue for one
SemLocked == sem_value = 0 \/ Len(sem_waiters) > 0

Remove(seq, x) == SelectSeq(seq, LAMBDA y : y # x)

\* the first waiter that has not been handed a permit yet, 0 if none
NextWaiter(waiters, granted) ==
    IF \E i \in 1..Len(waiters) : waiters[i] \notin granted
    THEN waiters[CHOOSE i \in 1..Len(waiters) :
                    /\ waiters[i] \notin granted
                    /\ \A j \in 1..(i - 1) : waiters[j] \in granted]
    ELSE 0

\* acquire(), on its way out: `while self._value > 0: self._wake_up_next()`
\* hands the free permits to the first waiters not yet woken
RECURSIVE WakeWaiters(_, _, _)
WakeWaiters(waiters, granted, value) ==
    LET w == NextWaiter(waiters, granted) IN
    IF value > 0 /\ w # 0
    THEN WakeWaiters(waiters, granted \cup {w}, value - 1)
    ELSE [granted |-> granted, value |-> value]

\* release(): the permit goes to the first waiter, or back to the counter
SemRelease ==
    LET w == NextWaiter(sem_waiters, sem_granted) IN
    /\ sem_value' = IF w = 0 THEN sem_value + 1 ELSE sem_value
    /\ sem_granted' = IF w = 0 THEN sem_granted ELSE sem_granted \cup {w}
    /\ sem_waiters' = sem_waiters

(***************************************************************************)
(* process_message: from the broker's callback to the concurrency gate     *)
(***************************************************************************)
\* the task may be resumed: the loop is idle, no cancellation is pending and
\* the touch_loop task, scheduled before it, has had its first step
Resumable(m) == running = 0 /\ ~cancel_req[m] /\ tpc[m] # "new"

\* main.py 112-160: create the keep-alive task, decode the body, bind the
\* context and enter `async with WORKER_SEMAPHORE`.
Start(m) ==
    /\ running = 0
    /\ pc[m] = "queued"
    /\ tpc' = [tpc EXCEPT ![m] = "new"]
    /\ IF ~body[m].json
       THEN /\ \E e \in DecodeErrors : exc' = [exc EXCEPT ![m] = e]
            /\ pc' = [pc EXCEPT ![m] = "except"]
            /\ running' = m
            /\ UNCHANGED <<has_source_id, semVars, logs>>
       ELSE /\ has_source_id' = [has_source_id EXCEPT ![m] = TRUE]
            /\ exc' = exc
            /\ Emit(m, {MessageReceived(m)})
            /\ IF SemLocked
               THEN /\ sem_waiters' = Append(sem_waiters, m)
                    /\ pc' = [pc EXCEPT ![m] = "sem_wait"]
                    /\ running' = 0
                    /\ UNCHANGED <<sem_value, sem_granted>>
               ELSE /\ sem_value' = sem_value - 1
                    /\ pc' = [pc EXCEPT ![m] = "dispatch"]
                    /\ running' = m
                    /\ UNCHANGED <<sem_waiters, sem_granted>>
    /\ UNCHANGED <<webVars, otherVars, configVars, crawlerVars, msgVars, stop_touch, cancel_req,
                   touch_failed, touches, results, pub_idx, hres, cid, restarted,
                   raised, events>>

\* Semaphore.acquire() returns in a task that was blocked in it.
SemResume(m) ==
    /\ Resumable(m)
    /\ pc[m] = "sem_wait"
    /\ m \in sem_granted
    /\ LET waiters == Remove(sem_waiters, m)
           woken == WakeWaiters(waiters, sem_granted \ {m}, sem_value)
       IN  /\ sem_waiters' = waiters
           /\ sem_value' = woken.value
           /\ sem_granted' = woken.granted
    /\ pc' = [pc EXCEPT ![m] = "dispatch"]
    /\ running' = m
    /\ UNCHANGED <<webVars, otherVars, configVars, crawlerVars, msgVars, touchVars, has_source_id,
                   results, pub_idx, exc, hres, cid, restarted, raised, events, logs>>

(***************************************************************************)
(* init_crawler / get_crawler / restart_crawler                            *)
(***************************************************************************)
\* the next instance AsyncWebCrawler(verbose=True) constructs, 0 if the
\* model has none left
FreeCrawler ==
    IF \E c \in 1..MaxCrawlers : crawlers[c] = "unused"
    THEN CHOOSE c \in 1..MaxCrawlers :
            crawlers[c] = "unused" /\ \A d \in 1..(c - 1) : crawlers[d] # "unused"
    ELSE 0

\* what the constructor raises when it fails
CtorError == Exception("cannot create crawler home")

\* main.py 161-178: dispatch on the task type, up to the first await.
Dispatch(m) ==
    /\ running = m
    /\ pc[m] = "dispatch"
    /\ \/ /\ TaskType(m) = "web"
          /\ CRAWLER # 0
          /\ cid' = [cid EXCEPT ![m] = CRAWLER]
          /\ pc' = [pc EXCEPT ![m] = "in_handler"]
          /\ running' = 0
          /\ logs' = logs
          /\ UNCHANGED <<crawlerVars, exc, hres>>
       \/ /\ TaskType(m) = "web"
          /\ CRAWLER = 0
          /\ FreeCrawler # 0
          /\ CRAWLER' = FreeCrawler
          /\ crawlers' = [crawlers EXCEPT ![FreeCrawler] = "starting"]
          /\ cid' = [cid EXCEPT ![m] = FreeCrawler]
          /\ pc' = [pc EXCEPT ![m] = "crawler_start"]
          /\ running' = 0
          /\ Emit(m, InitCrawlerLogs(m, FALSE, NoException))
          /\ UNCHANGED <<exc, hres>>
       \/ /\ TaskType(m) = "web"
          /\ CRAWLER = 0
          /\ "crawler" \in env[m].faults \/ FreeCrawler = 0
          /\ exc' = [exc EXCEPT ![m] = CtorError]
          /\ hres' = [hres EXCEPT ![m] = [kind |-> "no_crawler", n |-> 0, exc |-> CtorError, content |-> ""]]
          /\ pc' = [pc EXCEPT ![m] = "crash_check"]
          /\ running' = m
          /\ Emit(m, InitCrawlerLogs(m, FALSE, CtorError))
          /\ UNCHANGED <<crawlerVars, cid>>
       \/ /\ TaskType(m) = "file"
          /\ pc' = [pc EXCEPT ![m] = "in_handler"]
          /\ running' = 0
          /\ logs' = logs
          /\ UNCHANGED <<crawlerVars, exc, hres, cid>>
       \/ /\ TaskType(m) = "file"
          /\ "handler" \in env[m].faults
          /\ \E e \in PreflightErrors(Get(Data(m), "path", "")) :
                /\ exc' = [exc EXCEPT ![m] = e]
                /\ hres' = [hres EXCEPT ![m] = [kind |-> "raised", n |-> 0, exc |-> e, content |-> ""]]
          /\ pc' = [pc EXCEPT ![m] = "exit_gate"]
          /\ running' = m
          /\ logs' = logs
          /\ UNCHANGED <<crawlerVars, cid>>
       \/ /\ TaskType(m) \notin {"web", "file"}
          /\ pc' = [pc EXCEPT ![m] = "exit_gate"]
          /\ running' = m
          /\ logs' = logs
          /\ UNCHANGED <<crawlerVars, exc, hres, cid>>
    /\ UNCHANGED <<webVars, otherVars, configVars, semVars, msgVars, touchVars, has_source_id,
                   results, pub_idx, restarted, raised, events>>

\* get_crawler: `await CRAWLER.start()` of init_crawler completes or raises.
CrawlerStarted(m) ==
    /\ Resumable(m)
    /\ pc[m] = "crawler_start"
    /\ \/ /\ crawlers' = [crawlers EXCEPT ![cid[m]] = "started"]
          /\ cid' = [cid EXCEPT ![m] = CRAWLER]
          /\ pc' = [pc EXCEPT ![m] = "in_handler"]
          /\ running' = 0
          /\ Emit(m, InitCrawlerLogs(m, TRUE, NoException))
          /\ UNCHANGED <<exc, hres>>
       \/ \E e \in StartErrors :
          /\ "crawler" \in env[m].faults
          /\ crawlers' = [crawlers EXCEPT ![cid[m]] = "failed"]
          /\ exc' = [exc EXCEPT ![m] = e]
          /\ hres' = [hres EXCEPT ![m] = [kind |-> "no_crawler", n |-> 0, exc |-> e, content |-> ""]]
          /\ pc' = [pc EXCEPT ![m] = "crash_check"]
          /\ running' = m
          /\ Emit(m, InitCrawlerLogs(m, TRUE, e))
          /\ cid' = cid
    /\ CRAWLER' = CRAWLER
    /\ UNCHANGED <<webVars, otherVars, configVars, semVars, msgVars, touchVars, has_source_id,
                   results, pub_idx, restarted, raised, events>>

(***************************************************************************)
(* The handlers, as process_message awaits them                            *)
(***************************************************************************)
\* the exceptions the handler of a task type raises
HandlerErrors(task_type) ==
    IF task_type = "web" THEN WebHandlerErrors
    ELSE FileHandlerErrors
         \cup {FileOutcome(c).exc : c \in {x \in PoolContents : FileOutcome(x).kind = "raised"}}

\* the content of the records the handler of a task type returns; a message
\* whose environment has no "empty" fault gets text
HandlerContents(m) ==
    LET all == IF TaskType(m) = "web"
               THEN {_get_embedding_content(md) : md \in Markdowns}
               ELSE {FileOutcome(c).content :
                        c \in {x \in PoolContents : FileOutcome(x).kind = "returned"}}
    IN  IF "empty" \in env[m].faults THEN all ELSE {c \in all : Strip(c) # ""}

\* main.py 166-168 / 178: `results_list = await handle_..._task(...)` returns.
HandlerReturn(m) ==
    /\ Resumable(m)
    /\ pc[m] = "in_handler"
    /\ \E n \in env[m].counts, c \in HandlerContents(m) :
          /\ results' = [results EXCEPT ![m] = n]
          /\ hres' = [hres EXCEPT ![m] =
                        [kind |-> "returned", n |-> n, exc |-> NoException,
                         content |-> IF n = 0 THEN "" ELSE c]]
    /\ pc' = [pc EXCEPT ![m] = "exit_gate"]
    /\ running' = m
    /\ UNCHANGED <<webVars, otherVars, configVars, crawlerVars, semVars, msgVars, touchVars,
                   has_source_id, pub_idx, exc, cid, restarted, raised, events, logs>>

\* main.py 166-169 / 178: the awaited handler raises.
HandlerRaise(m) ==
    /\ Resumable(m)
    /\ pc[m] = "in_handler"
    /\ "handler" \in env[m].faults
    /\ \E e \in HandlerErrors(TaskType(m)) :
          /\ exc' = [exc EXCEPT ![m] = e]
          /\ hres' = [hres EXCEPT ![m] = [kind |-> "raised", n |-> 0, exc |-> e, content |-> ""]]
    /\ pc' = [pc EXCEPT ![m] = IF TaskType(m) = "web" THEN "crash_check" ELSE "exit_gate"]
    /\ running' = m
    /\ UNCHANGED <<webVars, otherVars, configVars, crawlerVars, semVars, msgVars, touchVars,
                   has_source_id, results, pub_idx, cid, restarted, raised, events, logs>>

\* main.py 169-174 and restart_crawler 76-84: the except clause of the web
\* branch; restart_crawler up to `await CRAWLER.close()`.
CrashCheck(m) ==
    /\ running = m
    /\ pc[m] = "crash_check"
    /\ IF IsBrowserCrash(exc[m])
       THEN /\ restarted' = [restarted EXCEPT ![m] = TRUE]
            /\ Emit(m, {LogRecord(m, "crawler_restarting",
                                  [operation |-> "restart_crawler",
                                   reason |-> "health_check_failed"])})
            /\ IF CRAWLER # 0
               THEN /\ cid' = [cid EXCEPT ![m] = CRAWLER]
                    /\ crawlers' = [crawlers EXCEPT ![CRAWLER] = "closing"]
                    /\ pc' = [pc EXCEPT ![m] = "restart_close"]
                    /\ running' = 0
               ELSE /\ pc' = [pc EXCEPT ![m] = "restart_reinit"]
                    /\ running' = m
                    /\ UNCHANGED <<cid, crawlers>>
       ELSE /\ pc' = [pc EXCEPT ![m] = "exit_gate"]
            /\ running' = m
            /\ UNCHANGED <<restarted, cid, crawlers, logs>>
    /\ CRAWLER' = CRAWLER
    /\ UNCHANGED <<webVars, otherVars, configVars, semVars, msgVars, touchVars, has_source_id,
                   results, pub_idx, exc, hres, raised, events>>

\* restart_crawler 84-86: close() has completed (an exception of close() is
\* logged and ignored).
RestartClosed(m) ==
    /\ Resumable(m)
    /\ pc[m] = "restart_close"
    /\ crawlers' = [crawlers EXCEPT ![cid[m]] = "closed"]
    /\ pc' = [pc EXCEPT ![m] = "restart_reinit"]
    /\ running' = m
    /\ CRAWLER' = CRAWLER
    /\ UNCHANGED <<webVars, otherVars, configVars, semVars, msgVars, touchVars, has_source_id,
                   results, pub_idx, exc, hres, cid, restarted, raised, events, logs>>

\* restart_crawler 87-88 and init_crawler 54-59: CRAWLER = None, construct
\* the new instance and await its start().
RestartReinit(m) ==
    /\ running = m
    /\ pc[m] = "restart_reinit"
    /\ \/ /\ FreeCrawler # 0
          /\ CRAWLER' = FreeCrawler
          /\ crawlers' = [crawlers EXCEPT ![FreeCrawler] = "starting"]
          /\ cid' = [cid EXCEPT ![m] = FreeCrawler]
          /\ pc' = [pc EXCEPT ![m] = "restart_start"]
          /\ running' = 0
          /\ exc' = exc
          /\ Emit(m, InitCrawlerLogs(m, FALSE, NoException))
       \/ /\ "crawler" \in env[m].faults \/ FreeCrawler = 0
          /\ CRAWLER' = 0
          /\ exc' = [exc EXCEPT ![m] = CtorError]
          /\ Emit(m, InitCrawlerLogs(m, FALSE, CtorError))
          /\ pc' = [pc EXCEPT ![m] = "exit_gate"]
          /\ running' = m
          /\ UNCHANGED <<crawlers, cid>>
    /\ UNCHANGED <<webVars, otherVars, configVars, semVars, msgVars, touchVars, has_source_id,
                   results, pub_idx, hres, restarted, raised, events>>

\* init_crawler 59-65 inside restart_crawler, then `raise` (main.py 174):
\* start() completes and the handler's exception is re-raised, or start()
\* raises and its exception leaves the except clause instead.
RestartStarted(m) ==
    /\ Resumable(m)
    /\ pc[m] = "restart_start"
    /\ \/ /\ crawlers' = [crawlers EXCEPT ![cid[m]] = "started"]
          /\ exc' = exc
          /\ Emit(m, InitCrawlerLogs(m, TRUE, NoException))
       \/ \E e \in StartErrors :
          /\ "crawler" \in env[m].faults
          /\ crawlers' = [crawlers EXCEPT ![cid[m]] = "failed"]
          /\ exc' = [exc EXCEPT ![m] = e]
          /\ Emit(m, InitCrawlerLogs(m, TRUE, e))
    /\ pc' = [pc EXCEPT ![m] = "exit_gate"]
    /\ running' = m
    /\ CRAWLER' = CRAWLER
    /\ UNCHANGED <<webVars, otherVars, configVars, semVars, msgVars, touchVars, has_source_id,
                   results, pub_idx, hres, cid, restarted, raised, events>>

\* faulty variant: acquire()/release() without try/finally, an exception
\* skips the release
ReleasesOnNormalExit(e) == e = NoException

\* `async with`: __aexit__ releases the permit whether the block is left
\* normally (NoException) or by exception e
ReleasesOn(e) == TRUE

\* main.py 160: the `async with WORKER_SEMAPHORE` block is left, normally or
\* by an exception; the permit is released.
ExitGate(m) ==
    /\ running = m
    /\ pc[m] = "exit_gate"
    /\ IF ReleasesOn(exc[m]) THEN SemRelease ELSE UNCHANGED semVars
    /\ pc' = [pc EXCEPT ![m] = IF exc[m] = NoException THEN "publish" ELSE "except"]
    /\ UNCHANGED <<webVars, otherVars, configVars, crawlerVars, running, msgVars, touchVars,
                   has_source_id, results, pub_idx, exc, hres, cid, restarted,
                   raised, events, logs>>

(***************************************************************************)
(* process_message: publish, acknowledge, except clauses, finally          *)
(***************************************************************************)
\* faulty variant: the loop stops after the first record
AfterPubFirstOnly(published, total) == "finish"

\* main.py 181: `for res in results_list` goes on to the next record, or the
\* loop is over and message.finish() follows
AfterPub(published, total) == IF published = total THEN "finish" ELSE "publish"

\* the exception leaving a guarded broker call that failed or not
Escaping(failed) == LoggedNotRaised(IF failed THEN BrokerError ELSE NoException)

\* main.py 180-225: one producer.pub of the success loop, or the
\* "No content extracted" failure when the list is empty.
Publish(m) ==
    /\ running = m
    /\ pc[m] = "publish"
    /\ \E failed \in Fails(m, "broker") :
        IF results[m] > 0 /\ producer
        THEN /\ events' = [events EXCEPT ![m] =
                   Append(@, PubCall(SuccessPayload(Data(m), Record(Data(m), pub_idx[m] + 1, hres[m].content)),
                                     failed))]
             /\ pub_idx' = [pub_idx EXCEPT ![m] = @ + 1]
             /\ Emit(m, PublishLogs(m, Record(Data(m), pub_idx[m] + 1, hres[m].content).url, failed))
             /\ IF Escaping(failed) # NoException
                THEN /\ exc' = [exc EXCEPT ![m] = Escaping(failed)]
                     /\ pc' = [pc EXCEPT ![m] = "except"]
                ELSE /\ exc' = exc
                     /\ pc' = [pc EXCEPT ![m] = AfterPub(pub_idx[m] + 1, results[m])]
        ELSE IF producer
        THEN /\ events' = [events EXCEPT ![m] =
                   Append(@, PubCall(EmptyResultPayload(Data(m)), failed))]
             /\ pub_idx' = pub_idx
             /\ Emit(m, PublishLogs(m, "", failed))
             /\ IF Escaping(failed) # NoException
                THEN /\ exc' = [exc EXCEPT ![m] = Escaping(failed)]
                     /\ pc' = [pc EXCEPT ![m] = "except"]
                ELSE /\ exc' = exc
                     /\ pc' = [pc EXCEPT ![m] = "finish"]
        ELSE /\ pc' = [pc EXCEPT ![m] = "finish"]
             /\ UNCHANGED <<events, pub_idx, exc, logs>>
    /\ UNCHANGED <<webVars, otherVars, configVars, crawlerVars, semVars, running, msgVars, touchVars,
                   has_source_id, results, hres, cid, restarted, raised>>

\* main.py 227-237: message.finish() of the success path.
Finish(m) ==
    /\ running = m
    /\ pc[m] = "finish"
    /\ \E failed \in Fails(m, "broker") :
        /\ events' = [events EXCEPT ![m] = Append(@, FinishCall(failed))]
        /\ Emit(m, FinishLogs(m, failed))
        /\ IF Escaping(failed) # NoException
           THEN /\ exc' = [exc EXCEPT ![m] = Escaping(failed)]
                /\ pc' = [pc EXCEPT ![m] = "except"]
           ELSE /\ exc' = exc
                /\ pc' = [pc EXCEPT ![m] = "finally"]
    /\ UNCHANGED <<webVars, otherVars, configVars, crawlerVars, semVars, running, msgVars, touchVars,
                   has_source_id, results, pub_idx, hres, cid, restarted, raised>>

\* main.py 239-359: the except clauses, up to the requeue (and return) or to
\* the publish of the failure payload.
Except(m) ==
    /\ running = m
    /\ pc[m] = "except"
    /\ LET e == exc[m] IN
       \E failed \in Fails(m, "broker") :
        IF e.type = "CancelledError"
        THEN /\ pc' = [pc EXCEPT ![m] = "finally"]
             /\ Emit(m, ExceptLogs(m, e, FALSE, FALSE, FALSE))
             /\ UNCHANGED <<events, raised>>
        ELSE IF IF e.type = "IngestionError"
                THEN RequeueIngestionError(e, settings, attempts[m])
                ELSE RequeueOtherError(e, settings, attempts[m])
        THEN /\ events' = [events EXCEPT ![m] =
                   Append(@, RequeueCall(RequeueDelay(settings, attempts[m]), TRUE, failed))]
             /\ raised' = [raised EXCEPT ![m] = Escaping(failed) # NoException]
             /\ Emit(m, ExceptLogs(m, e, TRUE, FALSE, failed))
             /\ pc' = [pc EXCEPT ![m] = "finally"]
        ELSE IF producer /\ has_source_id[m]
        THEN /\ events' = [events EXCEPT ![m] =
                   Append(@, PubCall(IF e.type = "IngestionError"
                                     THEN IngestionFailurePayload(Data(m), e)
                                     ELSE GenericFailurePayload(Data(m), e),
                                     failed))]
             /\ raised' = [raised EXCEPT ![m] = Escaping(failed) # NoException]
             /\ Emit(m, ExceptLogs(m, e, FALSE, TRUE, failed))
             /\ pc' = [pc EXCEPT ![m] =
                    IF Escaping(failed) # NoException THEN "finally" ELSE "except_finish"]
        ELSE /\ pc' = [pc EXCEPT ![m] = "except_finish"]
             /\ Emit(m, ExceptLogs(m, e, FALSE, FALSE, FALSE))
             /\ UNCHANGED <<events, raised>>
    /\ UNCHANGED <<webVars, otherVars, configVars, crawlerVars, semVars, running, msgVars, touchVars,
                   has_source_id, results, pub_idx, exc, hres, cid, restarted>>

\* main.py 289-293 / 356-359: message.finish() of the except clauses.
ExceptFinish(m) ==
    /\ running = m
    /\ pc[m] = "except_finish"
    /\ \E failed \in Fails(m, "broker") :
        /\ events' = [events EXCEPT ![m] = Append(@, FinishCall(failed))]
        /\ raised' = [raised EXCEPT ![m] = Escaping(failed) # NoException]
        /\ Emit(m, ExceptFinishLogs(m, failed))
    /\ pc' = [pc EXCEPT ![m] = "finally"]
    /\ UNCHANGED <<webVars, otherVars, configVars, crawlerVars, semVars, running, msgVars, touchVars,
                   has_source_id, results, pub_idx, exc, hres, cid, restarted>>

\* faulty variant: the keep-alive task is told to stop but not awaited
AfterFinallyNoJoin(touch_pc, is_raising) == IF is_raising THEN "raised" ELSE "returned"

\* main.py 363: `await touch_task` returns at once when the task is done and
\* suspends process_message otherwise
AfterFinally(touch_pc, is_raising) ==
    IF touch_pc = "done" THEN (IF is_raising THEN "raised" ELSE "returned")
    ELSE "join_touch"

\* main.py 361-363: stop_touch.set(); await touch_task.
Finally(m) ==
    /\ running = m
    /\ pc[m] = "finally"
    /\ stop_touch' = [stop_touch EXCEPT ![m] = TRUE]
    /\ pc' = [pc EXCEPT ![m] = AfterFinally(tpc[m], raised[m])]
    /\ running' = 0
    /\ UNCHANGED <<webVars, otherVars, configVars, crawlerVars, semVars, msgVars, tpc, cancel_req,
                   touch_failed, touches, has_source_id, results, pub_idx, exc,
                   hres, cid, restarted, raised, events, logs>>

\* `await touch_task` returns: process_message ends.
Return(m) ==
    /\ running = 0
    /\ pc[m] = "join_touch"
    /\ tpc[m] = "done"
    /\ pc' = [pc EXCEPT ![m] = IF raised[m] THEN "raised" ELSE "returned"]
    /\ UNCHANGED <<webVars, otherVars, configVars, crawlerVars, semVars, running, msgVars, touchVars,
                   has_source_id, results, pub_idx, exc, hres, cid, restarted,
                   raised, events, logs>>

(***************************************************************************)
(* touch_loop, cancellation, the broker                                    *)
(***************************************************************************)
\* faulty variant: a failed touch() is only logged
TouchFailureIgnored(m) == FALSE

\* main.py 126-127: `if current_task: current_task.cancel()`; current_task
\* was taken inside the process_message task, so it is set
TouchFailureCancels(m) == TRUE

\* main.py 120-134: one iteration of touch_loop: message.touch() succeeds and
\* the loop sleeps, or it raises and the loop cancels current_task and ends.
Touch(m) ==
    /\ running = 0
    /\ pc[m] \in SuspendedPcs
    /\ tpc[m] \in {"new", "sleeping"}
    /\ ~stop_touch[m]
    /\ touches[m] < env[m].touches
    /\ touches' = [touches EXCEPT ![m] = @ + 1]
    /\ \/ /\ tpc' = [tpc EXCEPT ![m] = "sleeping"]
          /\ UNCHANGED <<cancel_req, touch_failed, logs>>
       \/ /\ "touch" \in env[m].faults
          /\ tpc' = [tpc EXCEPT ![m] = "done"]
          /\ touch_failed' = [touch_failed EXCEPT ![m] = TRUE]
          /\ cancel_req' = [cancel_req EXCEPT ![m] = TouchFailureCancels(m)]
          /\ Emit(m, {LogRecord(m, "touch_failed_connection_lost",
                                [error |-> TouchError.msg])})
    /\ UNCHANGED <<webVars, otherVars, configVars, crawlerVars, semVars, running, msgVars, pc,
                   stop_touch, has_source_id, results, pub_idx, exc, hres, cid,
                   restarted, raised, events>>

\* main.py 121: touch_loop finds stop_touch set and ends.
TouchStop(m) ==
    /\ running = 0
    /\ tpc[m] \in {"new", "sleeping"}
    /\ stop_touch[m]
    /\ tpc' = [tpc EXCEPT ![m] = "done"]
    /\ UNCHANGED <<webVars, otherVars, configVars, crawlerVars, semVars, running, msgVars, pc,
                   stop_touch, cancel_req, touch_failed, touches, has_source_id,
                   results, pub_idx, exc, hres, cid, restarted, raised, events, logs>>

\* The pending cancellation is delivered: CancelledError is raised at the
\* await the task is suspended in.
Cancel(m) ==
    /\ running = 0
    /\ cancel_req[m]
    /\ pc[m] \in SuspendedPcs \ {"join_touch"}
    /\ cancel_req' = [cancel_req EXCEPT ![m] = FALSE]
    /\ exc' = [exc EXCEPT ![m] = CancelledError]
    /\ running' = m
    /\ IF pc[m] = "sem_wait"
       THEN LET waiters == Remove(sem_waiters, m)
                \* a permit already handed to the cancelled waiter goes back
                value == IF m \in sem_granted THEN sem_value + 1 ELSE sem_value
                woken == WakeWaiters(waiters, sem_granted \ {m}, value)
            IN  /\ sem_waiters' = waiters
                /\ sem_value' = woken.value
                /\ sem_granted' = woken.granted
                /\ pc' = [pc EXCEPT ![m] = "except"]
                /\ crawlers' = crawlers
       ELSE /\ pc' = [pc EXCEPT ![m] = "exit_gate"]
            /\ crawlers' = IF pc[m] \in {"crawler_start", "restart_start", "restart_close"}
                           THEN [crawlers EXCEPT ![cid[m]] = "aborted"]
                           ELSE crawlers
            /\ UNCHANGED semVars
    /\ CRAWLER' = CRAWLER
    /\ UNCHANGED <<webVars, otherVars, configVars, msgVars, tpc, stop_touch, touch_failed, touches,
                   has_source_id, results, pub_idx, hres, cid, restarted, raised,
                   events, logs>>

\* message.finish() went through: the broker will not deliver the message again
Finished(m) ==
    \E i \in 1..Len(events[m]) : events[m][i].op = "finish" /\ ~events[m][i].failed

\* The broker delivers a message again that was requeued or that timed out:
\* handle_message creates a new process_message task, attempts is one more.
Redeliver(m) ==
    /\ running = 0
    /\ pc[m] \in {"returned", "raised"}
    /\ ~Finished(m)
    /\ attempts[m] < env[m].deliveries
    /\ attempts' = [attempts EXCEPT ![m] = @ + 1]
    /\ pc' = [pc EXCEPT ![m] = "queued"]
    /\ tpc' = [tpc EXCEPT ![m] = "none"]
    /\ stop_touch' = [stop_touch EXCEPT ![m] = FALSE]
    /\ cancel_req' = [cancel_req EXCEPT ![m] = FALSE]
    /\ touch_failed' = [touch_failed EXCEPT ![m] = FALSE]
    /\ touches' = [touches EXCEPT ![m] = 0]
    /\ has_source_id' = [has_source_id EXCEPT ![m] = FALSE]
    /\ results' = [results EXCEPT ![m] = 0]
    /\ pub_idx' = [pub_idx EXCEPT ![m] = 0]
    /\ exc' = [exc EXCEPT ![m] = NoException]
    /\ hres' = [hres EXCEPT ![m] = NoResult]
    /\ cid' = [cid EXCEPT ![m] = 0]
    /\ restarted' = [restarted EXCEPT ![m] = FALSE]
    /\ raised' = [raised EXCEPT ![m] = FALSE]
    /\ events' = [events EXCEPT ![m] = <<>>]
    /\ logs' = [logs EXCEPT ![m] = {}]
    /\ UNCHANGED <<webVars, otherVars, configVars, crawlerVars, semVars, running, body>>

Next ==
    \E m \in Msgs :
        \/ Start(m)
        \/ SemResume(m)
        \/ Dispatch(m)
        \/ CrawlerStarted(m)
        \/ HandlerReturn(m)
        \/ HandlerRaise(m)
        \/ CrashCheck(m)
        \/ RestartClosed(m)
        \/ RestartReinit(m)
        \/ RestartStarted(m)
        \/ ExitGate(m)
        \/ Publish(m)
        \/ Finish(m)
        \/ Except(m)
        \/ ExceptFinish(m)
        \/ Finally(m)
        \/ Return(m)
        \/ Touch(m)
        \/ TouchStop(m)
        \/ Cancel(m)
        \/ Redeliver(m)

Spec == Init /\ [][Next]_vars

(***************************************************************************)
(* handlers/web.py: one handle_web_task call, step by step                 *)
(***************************************************************************)
\* faulty variant: a terminal error is retried like a transient one
RetriesAny(e) == TRUE

\* web.py 364 / 377: the error is retried
IsRetried(e) == e.code \in TRANSIENT_ERRORS

\* faulty variant: a sleep follows the last attempt too
SleepsAlways(n) == TRUE

\* web.py 388: a sleep follows the attempt unless it was the last one
SleepsAfter(n) == n <= CRAWL_MAX_RETRIES

\* web.py 389: delay = CRAWL_INITIAL_BACKOFF_S * (2 ** (attempt - 1))
CrawlDelay(n) == CRAWL_INITIAL_BACKOFF_S * Pow(2, n - 1)

\* the url argument of the call
RequestUrls == {"http://ex.com", "http://ex.com/", "http://ex.com/docs/page"}

\* result.links["internal"] as the crawler reports it
InternalLinks ==
    {[href |-> "http://ex.com/about"], [href |-> "http://docs.ex.com/guide"],
     [href |-> "/pricing"], [text |-> "no href"]}

\* result.markdown of a successful crawl of a page with links
LinkedMarkdowns ==
    {MarkdownResult("# Doc", "# Doc [a](/a) [x](http://other.com/p) [s](sub)"),
     MarkdownStr("[top](#top) [b](//ex.com/b) [m](mailto:a@ex.com)\n[c]\n(http://ex.com/c)"),
     MarkdownResult("", "")}

\* the <loc> entries of the site's sitemaps
SitemapLocs == {"http://ex.com/about", "http://ex.com/docs", "http://cdn.ex.com/file"}

\* web.py 304-305: is_root
IsRoot(request_url) == UrlPath(request_url) \in {"", "/"}

\* faulty variant: the sitemap's URLs replace the links of the crawl
ReplaceBySitemap(links, sitemap_urls) == sitemap_urls

\* faulty variant: every URL of the sitemap is appended
AllFromSitemap(existing, sitemap_urls) == sitemap_urls

\* web.py 311-314: the URLs of the sitemap that meta["links"] does not hold
NewFromSitemap(existing, sitemap_urls) == sitemap_urls \ existing

\* web.py 309-315: the sitemap's URLs are merged into the discovered links
MergeSitemap(links, sitemap_urls) ==
    links \cup NewFromSitemap(links, sitemap_urls)

\* web.py 345-354: the list handle_web_task returns
WebRecords(result, links) ==
    <<[url |-> result.url, content |-> _get_embedding_content(result.markdown),
       links |-> links]>>

\* The call starts: web.py 240-286, up to the first crawler.arun.
WebStart ==
    /\ web_pc = "start"
    /\ attempt' = 1
    /\ arun_calls' = arun_calls + 1
    /\ web_pc' = "crawl"
    /\ UNCHANGED <<mainVars, otherVars, sitemap, crawl_url, last_error, meta, crawl_result, sleeps,
                   errors, web_out>>

\* web.py 286-301 and 332-354: the crawl succeeds; the links are extracted
\* and, unless the sitemap of a root URL is fetched first, the record is
\* returned.
CrawlSucceeds ==
    /\ web_pc = "crawl"
    /\ \E md \in LinkedMarkdowns, internal \in SUBSET InternalLinks :
        LET result == [markdown |-> md, links |-> internal, url |-> crawl_url]
            links == extract_web_metadata(result, crawl_url)
        IN  /\ crawl_result' = result
            /\ meta' = links
            /\ IF IsRoot(crawl_url)
               THEN /\ web_pc' = "sitemap"
                    /\ web_out' = web_out
               ELSE /\ web_pc' = "returned"
                    /\ web_out' = [kind |-> "returned", records |-> WebRecords(result, links),
                                   exc |-> NoException]
    /\ UNCHANGED <<mainVars, otherVars, sitemap, crawl_url, attempt, last_error, arun_calls, sleeps, errors>>

\* web.py 306-354: the sitemap resolver returns its URLs, which are merged,
\* or fails, which is logged; the record is returned.
SitemapDone ==
    /\ web_pc = "sitemap"
    /\ \E locs \in SUBSET SitemapLocs, fails \in BOOLEAN :
        LET sitemap_urls == IF fails THEN {}
                            ELSE fetch_sitemap_urls_with_index(crawl_url, locs)
            links == MergeSitemap(meta, sitemap_urls)
        IN  /\ sitemap' = [called |-> TRUE, raised |-> fails, urls |-> sitemap_urls,
                            appended |-> NewFromSitemap(meta, sitemap_urls)]
            /\ meta' = links
            /\ web_out' = [kind |-> "returned",
                           records |-> WebRecords(crawl_result, links),
                           exc |-> NoException]
    /\ web_pc' = "returned"
    /\ UNCHANGED <<mainVars, otherVars, crawl_url, attempt, last_error, crawl_result, arun_calls,
                   sleeps, errors>>

\* web.py 356-398 and 400-410: what follows an attempt that failed with e
AfterFailure(e) ==
    /\ last_error' = e
    /\ errors' = Append(errors, e)
    /\ IF ~IsRetried(e)
       THEN /\ web_pc' = "raised"
            /\ web_out' = [kind |-> "raised", records |-> <<>>, exc |-> e]
            /\ sleeps' = sleeps
       ELSE IF SleepsAfter(attempt)
       THEN /\ web_pc' = "sleep"
            /\ sleeps' = Append(sleeps, CrawlDelay(attempt))
            /\ web_out' = web_out
       ELSE IF attempt < CRAWL_MAX_RETRIES + 1
       THEN /\ web_pc' = "next"
            /\ UNCHANGED <<sleeps, web_out>>
       ELSE /\ web_pc' = "raised"
            /\ web_out' = [kind |-> "raised", records |-> <<>>, exc |-> e]
            /\ sleeps' = sleeps
    /\ UNCHANGED <<mainVars, otherVars, sitemap, crawl_url, attempt, meta, crawl_result, arun_calls>>

\* web.py 227-228 and 361-373: result.success is false; the classified
\* error is raised by _crawl_single_page.
CrawlFails ==
    /\ web_pc = "crawl"
    /\ \E error_message \in CrawlErrorMessages :
          AfterFailure(_classify_crawl_error(error_message))

\* web.py 223-225 and 356-360: the outer deadline of wait_for expires.
CrawlTimesOut ==
    /\ web_pc = "crawl"
    /\ AfterFailure(IngestionError(ERR_CRAWL_TIMEOUT, "Crawl timed out after 120000ms"))

\* web.py 374-385: crawler.arun raises; the exception is classified by its
\* text.
CrawlRaises ==
    /\ web_pc = "crawl"
    /\ \E message \in CrawlErrorMessages \cup {"Connection refused: ECONNREFUSED"} :
          AfterFailure(_classify_crawl_error(Exception(message).msg))

\* web.py 398 and 283-286: asyncio.sleep returns (or was skipped) and the
\* next attempt calls crawler.arun; past the last attempt the loop is over
\* and last_error is raised.
NextAttempt ==
    /\ web_pc \in {"sleep", "next"}
    /\ IF attempt < CRAWL_MAX_RETRIES + 1
       THEN /\ attempt' = attempt + 1
            /\ arun_calls' = arun_calls + 1
            /\ web_pc' = "crawl"
            /\ web_out' = web_out
       ELSE /\ web_pc' = "raised"
            /\ web_out' = [kind |-> "raised", records |-> <<>>, exc |-> last_error]
            /\ UNCHANGED <<attempt, arun_calls>>
    /\ UNCHANGED <<mainVars, otherVars, sitemap, crawl_url, last_error, meta, crawl_result, sleeps, errors>>

WebInit ==
    /\ MainInit
    /\ settings = DefaultSettings
    /\ capacity = 1
    /\ body = [m \in Msgs |-> JsonBody(WebTask)]
    /\ crawl_url \in RequestUrls
    /\ web_pc = "start"
    /\ attempt = 0
    /\ last_error = NoException
    /\ meta = {}
    /\ crawl_result = NoCrawlResult
    /\ arun_calls = 0
    /\ sleeps = <<>>
    /\ errors = <<>>
    /\ web_out = NoOutcome
    /\ sitemap = NoSitemap
    /\ OthersIdle

WebNext ==
    \/ WebStart
    \/ CrawlSucceeds
    \/ SitemapDone
    \/ CrawlFails
    \/ CrawlTimesOut
    \/ CrawlRaises
    \/ NextAttempt

WebSpec == WebInit /\ [][WebNext]_vars

(***************************************************************************)
(* Web tasks that overlap in the gate: as many permits as messages         *)
(***************************************************************************)
\* the first message meets failing handlers, crawler start-ups and touches
\* and is followed over two deliveries, the others meet failing handlers
CrashEnv(m) ==
    IF m = 1
    THEN [counts |-> {1}, faults |-> {"handler", "crawler", "touch"}, touches |-> 1,
          deliveries |-> 2]
    ELSE [counts |-> {1}, faults |-> {"handler"}, touches |-> 1, deliveries |-> 1]

OverlapInit ==
    /\ env = [m \in Msgs |-> CrashEnv(m)]
    /\ settings = DefaultSettings
    /\ capacity \in {1, NumMsgs}
    /\ body = [m \in Msgs |-> JsonBody(WebTask)]
    /\ WorkerStarted
    /\ WebIdle
    /\ OthersIdle

OverlapSpec == OverlapInit /\ [][Next]_vars

(***************************************************************************)
(* handlers/web.py: _classify_crawl_error on raw texts, and the round trip *)
(* through the formatted error                                             *)
(***************************************************************************)
\* the pieces the raw crawl error texts are put together from
Fragments ==
    {"", "net::ERR_TIMED_OUT", "Timeout 30000ms exceeded", "net::ERR_NAME_NOT_RESOLVED",
     "dns lookup failed", "net::ERR_CONNECTION_REFUSED", "econnreset",
     "disallowed by robots.txt", "403 Forbidden", "net::ERR_BLOCKED_BY_CLIENT",
     "page crashed"}

\* result.error_message / str(e) of a crawl that failed
RawMessages == {a \o " " \o b : a, b \in Fragments}

\* exceptions.py 7-20: a kind is the string that names it
KindName(e) == e.code

\* faulty variant: the formatted error leaves the message out
ErrorTextNoMessage(e) == "[" \o e.code \o "]"

\* main.py 274: f"[{e.code}] {e}"
ErrorText(e) == "[" \o e.code \o "] " \o e.msg

\* web.py 228 / 376: the raw text is classified
Classify ==
    /\ raw_message \in RawMessages
    /\ classified = NoException
    /\ classified' = _classify_crawl_error(raw_message)
    /\ UNCHANGED <<mainVars, webVars, fileVars, transientVars, circuitVars, resolverVars, shutdownVars, raw_message, formatted, reclassified>>

\* the kind is formatted as its name, which is classified again
ReclassifyName ==
    /\ classified # NoException
    /\ reclassified = NoException
    /\ formatted' = KindName(classified)
    /\ reclassified' = _classify_crawl_error(formatted')
    /\ UNCHANGED <<mainVars, webVars, fileVars, transientVars, circuitVars, resolverVars, shutdownVars, raw_message, classified>>

\* the error is formatted as in a failure payload, which is classified again
ReclassifyText ==
    /\ classified # NoException
    /\ reclassified = NoException
    /\ formatted' = ErrorText(classified)
    /\ reclassified' = _classify_crawl_error(formatted')
    /\ UNCHANGED <<mainVars, webVars, fileVars, transientVars, circuitVars, resolverVars, shutdownVars, raw_message, classified>>

\* a started worker that handles no message
QuietWorker ==
    /\ env = [m \in Msgs |-> PlainEnv]
    /\ settings = DefaultSettings
    /\ capacity = 1
    /\ body = [m \in Msgs |-> JsonBody(WebTask)]
    /\ WorkerStarted
    /\ WebIdle

ClassifyInit ==
    /\ QuietWorker
    /\ raw_message \in RawMessages
    /\ classified = NoException
    /\ formatted = ""
    /\ reclassified = NoException
    /\ CircuitClosed
    /\ FileIdle
    /\ TransientIdle
    /\ ResolverIdle
    /\ NoSignal

ClassifyNext ==
    \/ Classify
    \/ ReclassifyName
    \/ ReclassifyText

ClassifySpec == ClassifyInit /\ [][ClassifyNext]_vars

(***************************************************************************)
(* handlers/web.py: the LLM circuit breaker over several handle_web_task   *)
(* calls                                                                   *)
(***************************************************************************)
_LLM_CIRCUIT_THRESHOLD == 3
_LLM_CIRCUIT_COOLDOWN_S == 300

\* str.endswith
EndsWith(s, suffix) ==
    /\ Len(s) >= Len(suffix)
    /\ SubSeq(s, Len(s) - Len(suffix) + 1, Len(s)) = suffix

\* faulty variant: the circuit is never seen open
_is_llm_circuit_never_open(t, open_until) == FALSE

\* web.py 60-62
_is_llm_circuit_open(t, open_until) == t < open_until

\* faulty variant: the circuit opens at the second failure
_record_llm_failure_early(failures, open_until, t) ==
    [failures |-> failures + 1,
     open_until |-> IF failures + 1 >= 2 THEN t + _LLM_CIRCUIT_COOLDOWN_S ELSE open_until]

\* web.py 65-76: the globals after the call
_record_llm_failure(failures, open_until, t) ==
    [failures |-> failures + 1,
     open_until |-> IF failures + 1 >= _LLM_CIRCUIT_THRESHOLD
                    THEN t + _LLM_CIRCUIT_COOLDOWN_S
                    ELSE open_until]

\* web.py 79-83: the globals after the call
_record_llm_success(failures, open_until, t) == [failures |-> 0, open_until |-> 0]

\* web.py 247-248: use_llm
UseLlm(url) == ~(EndsWith(url, ".txt") \/ EndsWith(url, "llms.txt"))

\* web.py 251-271: the markdown generator the call is configured with
MdGenerator(url, t, open_until) ==
    IF ~UseLlm(url) THEN "default"
    ELSE IF _is_llm_circuit_open(t, open_until) THEN "default"
    ELSE "llm"

\* web.py 294-296: the result has a fit_markdown that is empty or blank
FitBlank(md) ==
    /\ md.kind = "object"
    /\ (md.fit_markdown = "" \/ Strip(md.fit_markdown) = "")

\* the url argument of the calls
CallUrls == {"http://ex.com/docs/page", "http://ex.com/llms.txt"}

\* result.markdown of the calls that succeed
CallMarkdowns ==
    {MarkdownResult("# Doc", "# Doc"), MarkdownResult("", "# Doc"),
     MarkdownResult(" \n", "# Doc"), MarkdownStr("# Doc")}

\* web.py 240-286: a call starts and configures its generator; since_open
\* is the time since the circuit was last opened
CallStarts(c) ==
    /\ calls[c].state = "idle"
    /\ c > 1 => calls[c - 1].state # "idle"
    /\ Cardinality({d \in 1..MaxCalls : calls[d].state = "crawling"}) < MaxOverlap
    /\ \E url \in CallUrls :
          calls' = [calls EXCEPT ![c] =
                       [state |-> "crawling", url |-> url,
                        generator |-> MdGenerator(url, now, _llm_circuit_open_until),
                        since_open |-> IF opened_at < 0 THEN -1 ELSE now - opened_at]]
    /\ UNCHANGED <<mainVars, webVars, fileVars, transientVars, classifyVars, resolverVars, shutdownVars, _llm_consecutive_failures,
                   _llm_circuit_open_until, now, succeeded, opened_at>>

\* faulty variant: the outcome is recorded while the circuit is open too
RecordsWhenOpen(url, t, open_until) == UseLlm(url)

\* web.py 292: the outcome of the call is recorded
RecordsOutcome(url, t, open_until) ==
    UseLlm(url) /\ ~_is_llm_circuit_open(t, open_until)

\* a call that is over
CallOver(state) == [IdleCall EXCEPT !.state = state]

\* web.py 286-299 and 345-354: an attempt succeeds; the circuit breaker is
\* updated unless the call bypasses the LLM or the circuit is open; the
\* call returns.
CallSucceeds(c) ==
    /\ calls[c].state = "crawling"
    /\ calls' = [calls EXCEPT ![c] = CallOver("returned")]
    /\ \E md \in CallMarkdowns :
        LET records == RecordsOutcome(calls[c].url, now, _llm_circuit_open_until)
            kind == IF ~records THEN "none"
                    ELSE IF FitBlank(md) THEN "failure" ELSE "success"
            before == [failures |-> _llm_consecutive_failures,
                       open_until |-> _llm_circuit_open_until]
            after == IF kind = "failure"
                     THEN _record_llm_failure(_llm_consecutive_failures,
                                              _llm_circuit_open_until, now)
                     ELSE IF kind = "success"
                     THEN _record_llm_success(_llm_consecutive_failures,
                                              _llm_circuit_open_until, now)
                     ELSE before
            opened == records /\ _is_llm_circuit_open(now, after.open_until)
        IN  /\ _llm_consecutive_failures' = after.failures
            /\ _llm_circuit_open_until' = after.open_until
            /\ opened_at' = IF opened THEN now ELSE opened_at
            /\ succeeded' = Append(succeeded,
                                   [kind |-> kind, markdown |-> md,
                                    generator |-> calls[c].generator,
                                    failures |-> after.failures,
                                    open |-> _is_llm_circuit_open(now, after.open_until),
                                    opened |-> opened])
    /\ UNCHANGED <<mainVars, webVars, fileVars, transientVars, classifyVars, resolverVars, shutdownVars, now>>

\* web.py 356-410: the call raises; the circuit breaker is left alone
CallRaises(c) ==
    /\ calls[c].state = "crawling"
    /\ calls' = [calls EXCEPT ![c] = CallOver("raised")]
    /\ UNCHANGED <<mainVars, webVars, fileVars, transientVars, classifyVars, resolverVars, shutdownVars, _llm_consecutive_failures,
                   _llm_circuit_open_until, now, succeeded, opened_at>>

\* time passes
Tick ==
    /\ now + TickS <= MaxClock
    /\ now' = now + TickS
    /\ UNCHANGED <<mainVars, webVars, fileVars, transientVars, classifyVars, resolverVars, shutdownVars, _llm_consecutive_failures,
                   _llm_circuit_open_until, calls, succeeded, opened_at>>

CircuitInit ==
    /\ QuietWorker
    /\ ClassifyIdle
    /\ CircuitClosed
    /\ FileIdle
    /\ TransientIdle
    /\ ResolverIdle
    /\ NoSignal

CircuitNext ==
    \/ \E c \in 1..MaxCalls :
        \/ CallStarts(c)
        \/ CallSucceeds(c)
        \/ CallRaises(c)
    \/ Tick

CircuitSpec == CircuitInit /\ [][CircuitNext]_vars

(***************************************************************************)
(* handlers/sitemap.py: fetch_sitemap_urls_with_index and the recursion of *)
(* _resolve_sitemap, one call or return at a time                          *)
(***************************************************************************)
MAX_SITEMAP_INDEX_DEPTH == 3

\* faulty variant: the depth is never found too large
DepthNeverExceeded(depth) == FALSE

\* sitemap.py 246: the depth test of _resolve_sitemap
DepthExceeded(depth) == depth > MAX_SITEMAP_INDEX_DEPTH

\* the sequences over S of length 1..n
SeqsUpTo(S, n) == UNION {[1..k -> S] : k \in 1..n}

\* what a GET of a sitemap URL yields: no usable document (timeout, status
\* other than 200, empty or malformed XML, unknown root), an error
\* _resolve_sitemap does not catch, a <urlset> or a <sitemapindex>
SitemapDocs ==
    {NoSitemapDoc, [kind |-> "raises", locs |-> {}, subs |-> <<>>],
     [kind |-> "urlset", locs |-> {"http://ex.com/about"}, subs |-> <<>>],
     [kind |-> "urlset", locs |-> {"http://ex.com/docs", "http://cdn.ex.com/file"},
      subs |-> <<>>]}
    \cup {[kind |-> "index", locs |-> {}, subs |-> subs] :
             subs \in SeqsUpTo(SitemapUrls, MaxSubs)}

BaseUrl == "http://ex.com"
RootSitemap == "http://ex.com/sitemap.xml"

\* a _resolve_sitemap call: at its start, in the loop over sub_urls, or
\* about to return pages
Frame(url, depth) ==
    [url |-> url, depth |-> depth, phase |-> "call", subs |-> <<>>, pages |-> {}]

Top == frames[Len(frames)]

\* sitemap.py 246-289: a call starts: the depth test, the GET and the parse
ResolveCall ==
    /\ frames # <<>>
    /\ Top.phase = "call"
    /\ IF DepthExceeded(Top.depth)
       THEN /\ frames' = [frames EXCEPT ![Len(frames)].phase = "ret"]
            /\ cuts' = cuts + 1
            /\ UNCHANGED <<gets, get_depths, all_urls>>
       ELSE LET doc == sitemaps[Top.url] IN
            /\ gets' = gets + 1
            /\ get_depths' = get_depths \cup {Top.depth}
            /\ cuts' = cuts
            /\ IF doc.kind = "raises"
               THEN /\ frames' = <<>>
                    /\ all_urls' = [state |-> "done", urls |-> {}]
               ELSE /\ all_urls' = all_urls
                    /\ frames' =
                          [frames EXCEPT ![Len(frames)] =
                              IF doc.kind = "index"
                              THEN [@ EXCEPT !.phase = "loop", !.subs = doc.subs]
                              ELSE IF doc.kind = "urlset"
                              THEN [@ EXCEPT !.phase = "ret",
                                             !.pages = {u \in doc.locs :
                                                           Netloc(u) = Netloc(BaseUrl)}]
                              ELSE [@ EXCEPT !.phase = "ret"]]
    /\ UNCHANGED <<mainVars, webVars, fileVars, transientVars, classifyVars, circuitVars, shutdownVars, sitemaps>>

\* sitemap.py 299-303: the loop over sub_urls calls _resolve_sitemap with
\* depth + 1, or is over
ResolveSub ==
    /\ frames # <<>>
    /\ Top.phase = "loop"
    /\ IF Top.subs = <<>>
       THEN frames' = [frames EXCEPT ![Len(frames)].phase = "ret"]
       ELSE /\ Len(frames) < MaxFrames
            /\ frames' = Append([frames EXCEPT ![Len(frames)].subs = Tail(@)],
                                Frame(Head(Top.subs), Top.depth + 1))
    /\ UNCHANGED <<mainVars, webVars, fileVars, transientVars, classifyVars, circuitVars, shutdownVars, sitemaps, gets,
                   get_depths, cuts, all_urls>>

\* sitemap.py 300-301 and 219-228: a call returns its pages to the call that
\* made it; the outermost returns to fetch_sitemap_urls_with_index, which
\* filters them
ResolveReturn ==
    /\ frames # <<>>
    /\ Top.phase = "ret"
    /\ IF Len(frames) = 1
       THEN /\ frames' = <<>>
            /\ all_urls' = [state |-> "done",
                            urls |-> fetch_sitemap_urls_with_index(BaseUrl, Top.pages)]
       ELSE /\ frames' = [SubSeq(frames, 1, Len(frames) - 1)
                             EXCEPT ![Len(frames) - 1].pages = @ \cup Top.pages]
            /\ all_urls' = all_urls
    /\ UNCHANGED <<mainVars, webVars, fileVars, transientVars, classifyVars, circuitVars, shutdownVars, sitemaps, gets,
                   get_depths, cuts>>

\* sitemap.py 206-217: fetch_sitemap_urls_with_index calls _resolve_sitemap
\* on the root sitemap with depth 0
ResolverInit ==
    /\ QuietWorker
    /\ ClassifyIdle
    /\ CircuitClosed
    /\ FileIdle
    /\ TransientIdle
    /\ sitemaps \in [SitemapUrls -> SitemapDocs]
    /\ frames = <<Frame(RootSitemap, 0)>>
    /\ gets = 0
    /\ get_depths = {}
    /\ cuts = 0
    /\ all_urls = [state |-> "running", urls |-> {}]
    /\ NoSignal

ResolverNext ==
    \/ ResolveCall
    \/ ResolveSub
    \/ ResolveReturn

\* the event loop keeps running the coroutine
ResolverSpec == ResolverInit /\ [][ResolverNext]_vars /\ WF_vars(ResolverNext)

(***************************************************************************)
(* main.py: shutdown(), the handler of SIGTERM and SIGINT                  *)
(***************************************************************************)
Closers == {"reader", "producer", "crawler"}

\* what a close() call leaves behind
AfterClose(who) == IF who \in close_faults THEN "close_failed" ELSE "closed"

\* main.py 422-423: a signal is delivered; the loop queues the handler
SignalArrives ==
    /\ loop = "running"
    /\ pending + shutdowns < MaxSignals
    /\ pending' = pending + 1
    /\ UNCHANGED <<mainVars, webVars, fileVars, transientVars, classifyVars, circuitVars, resolverVars, loop,
                   reader, writer, shutdowns, close_faults, closes, close_task>>

\* main.py 406-420: the loop runs shutdown(), a plain function, in one piece.
\* reader.close() and producer.close() are each tried. With a crawler set,
\* loop.run_until_complete is called on the loop that is running the
\* handler, which raises RuntimeError: loop.stop() is not reached, and the
\* CRAWLER.close() coroutine is dropped or left as a task of the loop,
\* depending on the loop implementation. Without a crawler loop.stop() is
\* called.
Shutdown ==
    /\ loop = "running"
    /\ pending > 0
    /\ pending' = pending - 1
    /\ shutdowns' = shutdowns + 1
    /\ reader' = AfterClose("reader")
    /\ writer' = AfterClose("producer")
    /\ closes' = closes \o <<"reader", "producer">>
    /\ IF CRAWLER # 0
       THEN /\ loop' = loop
            /\ \/ close_task' = "dropped"
               \/ close_task' = "scheduled"
       ELSE /\ loop' = "stopping"
            /\ close_task' = close_task
    /\ UNCHANGED <<mainVars, webVars, fileVars, transientVars, classifyVars, circuitVars, resolverVars,
                   close_faults>>

\* the task left behind by run_until_complete runs CRAWLER.close()
CloseTaskRuns ==
    /\ loop = "running"
    /\ close_task = "scheduled"
    /\ CRAWLER # 0
    /\ crawlers' = [crawlers EXCEPT ![CRAWLER] =
                        IF "crawler" \in close_faults THEN "failed" ELSE "closed"]
    /\ closes' = Append(closes, "crawler")
    /\ close_task' = "done"
    /\ UNCHANGED <<mainRest, CRAWLER, webVars, fileVars, transientVars, classifyVars, circuitVars, resolverVars,
                   loop, reader, writer, pending, shutdowns, close_faults>>

\* main.py 420 and 426: after loop.stop() run_forever returns at the end of
\* the iteration
LoopStops ==
    /\ loop = "stopping"
    /\ loop' = "stopped"
    /\ UNCHANGED <<mainVars, webVars, fileVars, transientVars, classifyVars, circuitVars, resolverVars, reader,
                   writer, pending, shutdowns, close_faults, closes, close_task>>

\* the worker is idle; its crawler is started, or None after a restart whose
\* AsyncWebCrawler() call raised
ShutdownInit ==
    /\ env = [m \in Msgs |-> PlainEnv]
    /\ settings = DefaultSettings
    /\ capacity = 1
    /\ body = [m \in Msgs |-> JsonBody(WebTask)]
    /\ NoMessageYet
    /\ CRAWLER \in {0, 1}
    /\ crawlers = [c \in 1..MaxCrawlers |->
                      IF c # 1 THEN "unused" ELSE IF CRAWLER = 1 THEN "started" ELSE "closed"]
    /\ WebIdle
    /\ ClassifyIdle
    /\ CircuitClosed
    /\ FileIdle
    /\ TransientIdle
    /\ ResolverIdle
    /\ LoopRunning
    /\ close_faults \in SUBSET Closers

ShutdownNext ==
    \/ SignalArrives
    \/ Shutdown
    \/ CloseTaskRuns
    \/ LoopStops

\* the loop runs the callbacks and tasks that are ready; signals are up to
\* the environment
ShutdownSpec ==
    /\ ShutdownInit
    /\ [][ShutdownNext]_vars
    /\ WF_vars(Shutdown)
    /\ WF_vars(CloseTaskRuns)
    /\ WF_vars(LoopStops)

(***************************************************************************)
(* handlers/file.py: one handle_file_task call                             *)
(***************************************************************************)
\* the paths of the tasks
FilePaths == {"/data/a.pdf", "/data/b.docx"}

\* what os.path.isfile and os.path.getsize say of a path
FileStats ==
    [is_file : BOOLEAN, size : {0, 1, MAX_FILE_SIZE_BYTES, MAX_FILE_SIZE_BYTES + 1}]

\* what the future of the conversion raises
ConversionErrors ==
    PoolErrors
    \cup {ProcessExpired("Abnormal termination"), Exception("Operation timeout exceeded"),
          Exception("Timeout while opening password protected file"),
          Exception("Encrypted PDF in unknown format"),
          Exception("Invalid format detected"), Exception("net::ERR_TIMED_OUT")}

\* file.py 186-193, _get_executor: the pool is constructed when there is
\* none or when the one there is is not active
PoolBuilt(executor) == executor # "active"

\* file.py 249-258: the list handle_file_task returns
FileRecords(path, content) ==
    <<[url |-> path, content |-> content, links |-> {}]>>

\* file.py 201-235: the pre-flight validation raises, or the pool is fetched
\* and the conversion scheduled and awaited.
FileStart ==
    /\ file_pc = "start"
    /\ LET e == Preflight(file_path, file_stat) IN
       IF e # NoException
       THEN /\ file_pc' = "raised"
            /\ file_out' = [kind |-> "raised", records |-> <<>>, exc |-> e]
            /\ UNCHANGED <<_executor, pool_calls>>
       ELSE /\ file_pc' = "converting"
            /\ _executor' = "active"
            /\ pool_calls' = pool_calls
                               \o (IF PoolBuilt(_executor) THEN <<"ProcessPool">> ELSE <<>>)
                               \o <<"schedule">>
            /\ file_out' = file_out
    /\ UNCHANGED <<mainVars, webVars, classifyVars, circuitVars, resolverVars,
                   shutdownVars, transientVars, file_path, file_stat, pool_result>>

\* file.py 235-258: the future returns the converted document.
FileConverted ==
    /\ file_pc = "converting"
    /\ \E content \in PoolContents :
        LET out == FileOutcome(content) IN
        /\ pool_result' = [kind |-> "returned", content |-> content, exc |-> NoException]
        /\ file_pc' = out.kind
        /\ file_out' = [kind |-> out.kind,
                        records |-> IF out.kind = "returned"
                                    THEN FileRecords(file_path, out.content) ELSE <<>>,
                        exc |-> out.exc]
    /\ UNCHANGED <<mainVars, webVars, classifyVars, circuitVars, resolverVars,
                   shutdownVars, transientVars, file_path, file_stat, _executor,
                   pool_calls>>

\* file.py 235 and 260-299: the future raises.
FileConversionFails ==
    /\ file_pc = "converting"
    /\ \E e \in ConversionErrors :
        /\ pool_result' = [kind |-> "raised", content |-> "", exc |-> e]
        /\ file_out' = [kind |-> "raised", records |-> <<>>, exc |-> FileFailure(e)]
    /\ file_pc' = "raised"
    /\ UNCHANGED <<mainVars, webVars, classifyVars, circuitVars, resolverVars,
                   shutdownVars, transientVars, file_path, file_stat, _executor,
                   pool_calls>>

FileInit ==
    /\ QuietWorker
    /\ ClassifyIdle
    /\ CircuitClosed
    /\ ResolverIdle
    /\ NoSignal
    /\ TransientIdle
    /\ file_path \in FilePaths
    /\ file_stat \in FileStats
    /\ _executor \in {"none", "active", "inactive"}
    /\ pool_calls = <<>>
    /\ file_pc = "start"
    /\ pool_result = NoPoolResult
    /\ file_out = NoOutcome

FileNext ==
    \/ FileStart
    \/ FileConverted
    \/ FileConversionFails

FileSpec == FileInit /\ [][FileNext]_vars

(***************************************************************************)
(* main.py: _is_transient_error on its own                                 *)
(***************************************************************************)
\* str(e) of the exceptions the predicate is asked about
ProbeMessages ==
    {"", "Timeout", "Encrypted", "File is password protected", "Decryption timeout",
     "Connection reset by peer", "net::ERR_TIMED_OUT", "net::ERR_NAME_NOT_RESOLVED",
     "connect ECONNREFUSED 10.0.0.1:443", "corrupt xref table", "403 Forbidden"}

\* the exceptions the predicate is asked about
Probes ==
    {IngestionError(code, msg) : code \in Taxonomy, msg \in ProbeMessages}
    \cup {Exception(msg) : msg \in ProbeMessages}
    \cup {TimeoutError(""), ProcessExpired("Abnormal termination")}

\* main.py 35-51: the call
IsTransientCall ==
    /\ ~verdict.called
    /\ verdict' = [called |-> TRUE, transient |-> _is_transient_error(probe)]
    /\ UNCHANGED <<mainVars, webVars, classifyVars, circuitVars, resolverVars,
                   shutdownVars, fileVars, probe>>

TransientInit ==
    /\ QuietWorker
    /\ ClassifyIdle
    /\ CircuitClosed
    /\ ResolverIdle
    /\ NoSignal
    /\ FileIdle
    /\ probe \in Probes
    /\ verdict = NoVerdict

TransientNext == IsTransientCall

TransientSpec == TransientInit /\ [][TransientNext]_vars

(***************************************************************************)
(* Properties                                                              *)
(***************************************************************************)
\* the process_message invocation of message m has ended
Done(m) == pc[m] \in {"returned", "raised"}

\* positions of the broker calls of the given kind made for m
CallsOf(m, op) == {i \in 1..Len(events[m]) : events[m][i].op = op}

\* positions of the producer.pub calls whose payload has the given status
PubsOf(m, status) ==
    {i \in CallsOf(m, "pub") : events[m][i].payload.status = status}

\* the handler of m raised e (the handler itself, not the crawler lifecycle)
HandlerRaised(m) == hres[m].kind = "raised"

\* transient failures: an IngestionError of a transient kind, a deadline
\* expiry, any other exception _is_transient_error accepts
TransientFailure(e) ==
    \/ e.type = "IngestionError" /\ e.code \in TRANSIENT_ERRORS
    \/ e.type = "TimeoutError"
    \/ e.type # "IngestionError" /\ _is_transient_error(e)

\* the one call a transient failure makes: requeue with the backoff delay
OnlyRequeued(m) ==
    /\ Len(events[m]) = 1
    /\ events[m][1].op = "requeue"
    /\ events[m][1].backoff
    /\ events[m][1].delay =
         Min(settings.retry_initial_delay_ms
               * Pow(settings.retry_backoff_multiplier, attempts[m] - 1),
             settings.retry_max_delay_ms)

\* the two calls of a terminal failure: one failure payload, then finish
FailedThenFinished(m) ==
    /\ Len(events[m]) = 2
    /\ events[m][1].op = "pub" /\ events[m][1].payload.status = "failed"
    /\ events[m][2].op = "finish"

\* C1: when the handler returns a non-empty list (producer configured, touch
\* never failing), process_message publishes exactly one success payload per
\* record and no failure payload, finishes the message exactly once and never
\* requeues it.
C1_SuccessPublishesEachRecord ==
    \A m \in Msgs :
        Done(m) /\ producer /\ ~touch_failed[m]
          /\ hres[m].kind = "returned" /\ hres[m].n > 0
        => /\ \A i \in 1..hres[m].n :
                Cardinality({j \in PubsOf(m, "success") :
                               events[m][j].payload.part = i}) = 1
           /\ Cardinality(PubsOf(m, "success")) = hres[m].n
           /\ PubsOf(m, "failed") = {}
           /\ Cardinality(CallsOf(m, "finish")) = 1
           /\ CallsOf(m, "requeue") = {}

C1_Witness ==
    \E m \in Msgs :
        /\ Done(m) /\ hres[m].kind = "returned" /\ hres[m].n >= 2
        /\ Cardinality(PubsOf(m, "success")) = hres[m].n
        /\ Cardinality(CallsOf(m, "finish")) = 1

\* C2: when the handler fails with a transient error and attempts is at most
\* retry_max_attempts (touch never failing), process_message publishes
\* nothing, never finishes, and requeues exactly once with backoff=true and
\* delay min(initial * multiplier^(attempts-1), max_delay).
C2_TransientIsRequeued ==
    \A m \in Msgs :
        Done(m) /\ ~touch_failed[m] /\ HandlerRaised(m)
          /\ TransientFailure(hres[m].exc)
          /\ attempts[m] <= settings.retry_max_attempts
        => OnlyRequeued(m)

\* C3: when the handler fails with a terminal error, or with any error once
\* attempts exceeds retry_max_attempts (touch never failing), process_message
\* publishes exactly one failure payload, then finishes exactly once, and
\* never requeues.
C3_TerminalIsFailedAndFinished ==
    \A m \in Msgs :
        Done(m) /\ ~touch_failed[m] /\ HandlerRaised(m) /\ producer
          /\ (~TransientFailure(hres[m].exc)
                \/ attempts[m] > settings.retry_max_attempts)
        => FailedThenFinished(m)

\* C4: every failure payload process_message publishes carries a code of the
\* error taxonomy and original_payload equal to the decoded task, whichever
\* path produced it.
C4_FailurePayloadFields ==
    \A m \in Msgs : \A i \in PubsOf(m, "failed") :
        LET payload == events[m][i].payload IN
        /\ "code" \in DOMAIN payload
        /\ payload.code \in Taxonomy
        /\ "original_payload" \in DOMAIN payload
        /\ payload.original_payload = Data(m)

\* C5: with redelivery after each requeue (attempts one more each time) and
\* touch never failing, a message whose handler fails transiently on a
\* delivery is requeued if that is delivery 1..retry_max_attempts, gets one
\* failure payload followed by finish on delivery retry_max_attempts + 1, and
\* no delivery after those is requeued.
C5_RetriesAreBounded ==
    \A m \in Msgs :
        /\ CallsOf(m, "requeue") # {} => attempts[m] <= settings.retry_max_attempts
        /\ Done(m) /\ ~touch_failed[m] /\ HandlerRaised(m)
             /\ TransientFailure(hres[m].exc)
           => IF attempts[m] <= settings.retry_max_attempts
              THEN CallsOf(m, "requeue") # {} /\ CallsOf(m, "finish") = {}
                     /\ CallsOf(m, "pub") = {}
              ELSE Cardinality(PubsOf(m, "failed")) = 1
                     /\ Cardinality(CallsOf(m, "finish")) = 1
                     /\ events[m][Len(events[m])].op = "finish"

\* C6: an IngestionError of a terminal kind is never requeued, whatever the
\* attempts and whatever its text: one failure payload is published and the
\* message is finished.
C6_TerminalKindNeverRequeued ==
    \A m \in Msgs :
        Done(m) /\ ~touch_failed[m] /\ HandlerRaised(m)
          /\ hres[m].exc.type = "IngestionError"
          /\ hres[m].exc.code \notin TRANSIENT_ERRORS
        => /\ CallsOf(m, "requeue") = {}
           /\ Cardinality(PubsOf(m, "failed")) = 1
           /\ Cardinality(CallsOf(m, "finish")) = 1

\* C7: process_message never raises to its caller, whatever the handler
\* raises and whenever producer.pub, finish, requeue and touch raise.
C7_NeverRaises ==
    \A m \in Msgs : pc[m] # "raised" /\ ~raised[m]

C7_Witness ==
    \E m \in Msgs :
        /\ pc[m] = "returned"
        /\ HandlerRaised(m)
        /\ \A i \in 1..Len(events[m]) : events[m][i].failed
        /\ Len(events[m]) = 2

\* C8: the number of messages inside a handler at the same time never exceeds
\* the capacity of the semaphore.
C8_HandlersWithinCapacity ==
    Cardinality({m \in Msgs : pc[m] = "in_handler"}) <= capacity

C8_Witness ==
    /\ Cardinality({m \in Msgs : pc[m] = "in_handler"}) = capacity
    /\ \E m \in Msgs : pc[m] = "sem_wait" /\ m \notin sem_granted

\* C9: the permit is released on every exit of the gated section: permits are
\* neither lost nor duplicated, a task only waits while no permit is free or
\* a woken waiter is about to run (which wakes the next ones), and once every
\* invocation has ended the free permits equal the capacity.
C9_PermitsReleased ==
    /\ sem_value + Cardinality({m \in Msgs : pc[m] \in GatedPcs})
         + Cardinality(sem_granted) = capacity
    /\ sem_value >= 0
    /\ (\E m \in Msgs : pc[m] = "sem_wait" /\ m \notin sem_granted)
         => sem_value = 0 \/ sem_granted # {}
    /\ (\A m \in Msgs : pc[m] \notin GatedPcs \cup {"sem_wait"}) => sem_value = capacity

C9_Witness ==
    /\ \A m \in Msgs : Done(m)
    /\ \E m \in Msgs : restarted[m] /\ exc[m] = CancelledError
    /\ \E m \in Msgs : hres[m].kind = "returned"
    /\ sem_value = capacity

\* C10: once touch() has raised, the processing task is cancelled and the
\* keep-alive stops: the invocation makes no publish, finish or requeue and
\* no further touch call.
C10_TouchFailureCancels ==
    /\ [](\A m \in Msgs :
            touch_failed[m] =>
                /\ tpc[m] = "done"
                /\ cancel_req[m] \/ exc[m] = CancelledError)
    /\ [][\A m \in Msgs :
            touch_failed[m] /\ touch_failed'[m] =>
                events'[m] = events[m] /\ touches'[m] = touches[m]]_vars

C10_Witness ==
    \E m \in Msgs :
        /\ Done(m) /\ touch_failed[m]
        /\ touches[m] < env[m].touches
        /\ hres[m].kind = "none" /\ pc[m] = "returned"

\* C11: on every exit path of process_message the keep-alive loop is stopped
\* and awaited: while process_message waits for it the stop event is set, so
\* the loop can only end; process_message ends with the loop ended, and after
\* that touch() is not called again for the delivery.
C11_KeepAliveStoppedOnExit ==
    /\ [](\A m \in Msgs :
            /\ pc[m] = "join_touch" => stop_touch[m] /\ tpc[m] # "none"
            /\ Done(m) => stop_touch[m] /\ tpc[m] = "done")
    /\ [][\A m \in Msgs : Done(m) /\ Done(m)' => touches'[m] = touches[m]]_vars

C11_Witness ==
    \E m \in Msgs :
        /\ Done(m) /\ ~touch_failed[m]
        /\ CallsOf(m, "requeue") # {}
        /\ touches[m] >= 1 /\ touches[m] < env[m].touches

\* C12: when the message body cannot be JSON-decoded, process_message
\* publishes nothing, never requeues, invokes no handler (it does not even
\* queue for the semaphore) and calls finish exactly once.
C12_DecodeFailureOnlyFinishes ==
    \A m \in Msgs :
        ~body[m].json =>
            /\ pc[m] \notin GatedPcs \cup {"sem_wait", "publish", "finish"}
            /\ hres[m] = NoResult
            /\ CallsOf(m, "pub") = {} /\ CallsOf(m, "requeue") = {}
            /\ Done(m) => Len(events[m]) = 1 /\ events[m][1].op = "finish"

C12_Witness ==
    \E m \in Msgs :
        /\ Done(m) /\ ~body[m].json
        /\ events[m] = <<FinishCall(FALSE)>>

\* C13: within one process_message invocation the handler is dispatched
\* only after the semaphore permit is acquired, no publish, finish or
\* requeue is made before the handler is over, and no publish follows a
\* finish or a requeue.
C13_EventsOrdered ==
    /\ [][\A m \in Msgs :
            /\ pc'[m] \in GatedPcs /\ pc[m] \notin GatedPcs
                 => \/ pc[m] = "queued" /\ sem_value > 0 /\ sem_value' = sem_value - 1
                    \/ pc[m] = "sem_wait" /\ m \in sem_granted
            /\ pc'[m] = "in_handler" /\ pc[m] # "in_handler"
                 => pc[m] \in {"dispatch", "crawler_start"}]_vars
    /\ [](\A m \in Msgs :
            /\ pc[m] \in {"queued", "sem_wait"} \cup GatedPcs => events[m] = <<>>
            /\ \A i, j \in 1..Len(events[m]) :
                  i < j /\ events[m][i].op \in {"finish", "requeue"}
                    => events[m][j].op # "pub")

C13_Witness ==
    \E m \in Msgs :
        /\ Done(m) /\ hres[m].kind = "returned"
        /\ Len(events[m]) = 3
        /\ events[m][1].op = "pub" /\ events[m][2].op = "pub"
        /\ events[m][3].op = "finish"

\* C14: for a web task, when get_crawler or handle_web_task raises an
\* exception whose lower-cased message contains a browser-crash keyword,
\* restart_crawler is invoked before the failure reaches the requeue/terminal
\* logic (before any requeue, publish or finish); restart_crawler is invoked
\* in no other case, and never for a file task whatever its error text.
C14_RestartOnBrowserCrash ==
    [][\A m \in Msgs :
        LET failed(h) == h.kind \in {"raised", "no_crawler"}
            web == body[m].json /\ TaskType(m) = "web"
            crash == \E kw \in _BROWSER_CRASH_KEYWORDS :
                        Contains(Lower(hres[m].exc.msg), kw)
        IN  /\ (web /\ ~failed(hres[m]) /\ failed(hres'[m])) => pc'[m] = "crash_check"
            /\ (pc[m] = "crash_check" /\ pc'[m] # "crash_check") =>
                  /\ web /\ failed(hres[m])
                  /\ events[m] = <<>>
                  /\ restarted'[m] <=> crash
                  /\ crash => pc'[m] \in {"restart_close", "restart_reinit"}
            /\ pc[m] # "crash_check" => (restarted'[m] => restarted[m])
            /\ ~web => ~restarted'[m]
            /\ ~restarted'[m] => pc'[m] \notin {"restart_close", "restart_reinit",
                                                "restart_start"}]_vars

C14_Witness ==
    \E m \in Msgs :
        /\ Done(m) /\ restarted[m]
        /\ hres[m].kind = "no_crawler"
        /\ Len(events[m]) > 0

\* the text fields of a published payload
TextFields == {"source_id", "correlation_id", "content", "url", "status", "code", "error"}

\* the task's credential, "" when the task carries none
KeyOf(m) == IF body[m].json THEN Get(Data(m), "gemini_api_key", "") ELSE ""

\* the credential shows in a text field of the payload
KeyInText(p, key) == \E f \in DOMAIN p \cap TextFields : Contains(p[f], key)

\* the credential shows in the task the payload echoes
KeyInEcho(p, key) ==
    /\ "original_payload" \in DOMAIN p
    /\ Get(p.original_payload, "gemini_api_key", "") = key

\* the same task with another credential
Rekeyed(data) == [data EXCEPT !.gemini_api_key = "k-other"]

\* the payloads message m has handed to producer.pub
Published(m) == {events[m][i].payload : i \in CallsOf(m, "pub")}

\* C15 as stated: no published payload, success or failure, holds the
\* task's gemini_api_key anywhere.
C15_NoKeyInAnyPayload ==
    \A m \in Msgs : KeyOf(m) # "" =>
        \A p \in Published(m) : ~KeyInText(p, KeyOf(m)) /\ ~KeyInEcho(p, KeyOf(m))

\* C15 amended: a success payload never holds the task's gemini_api_key and
\* is the same for the task with another key; a failure payload holds the
\* key in no field of its own, only inside original_payload, which is the
\* decoded task as received.
C15_KeyOnlyInOriginalPayload ==
    \A m \in Msgs : KeyOf(m) # "" =>
        \A p \in Published(m) :
            /\ ~KeyInText(p, KeyOf(m))
            /\ p.status = "success" =>
                 /\ "original_payload" \notin DOMAIN p
                 /\ p = SuccessPayload(Rekeyed(Data(m)),
                                       Record(Rekeyed(Data(m)), p.part, hres[m].content))
            /\ "original_payload" \in DOMAIN p =>
                 /\ p.status = "failed"
                 /\ p.original_payload = Data(m)

C15_Witness ==
    \E m \in Msgs :
        /\ Done(m) /\ KeyOf(m) = "k-secret"
        /\ \E p \in Published(m) : p.status = "failed" /\ KeyInEcho(p, "k-secret")

\* the text fields of a log record and of a decoded task
LogTextFields ==
    {"event", "error", "source_id", "url", "code", "reason", "correlation_id",
     "operation", "task_type"}
DataTextFields == {"id", "type", "url", "path", "gemini_api_key"}

\* the credential shows in the log record, in a field of its own or in the
\* decoded body it carries
KeyInLog(r, key) ==
    \/ \E f \in DOMAIN r \cap LogTextFields : Contains(r[f], key)
    \/ /\ "data" \in DOMAIN r
       /\ \/ "gemini_api_key" \in DOMAIN r.data
          \/ \E k \in DOMAIN r.data \cap DataTextFields : Contains(r.data[k], key)

\* C16: the message_received log record, and every other log record that
\* process_message emits for a task, never contains the task's
\* gemini_api_key value.
C16_NoKeyInLogs ==
    \A m \in Msgs : KeyOf(m) # "" =>
        \A r \in logs[m] : ~KeyInLog(r, KeyOf(m))

C16_Witness ==
    \E m \in Msgs :
        /\ Done(m) /\ KeyOf(m) = "k-secret"
        /\ \E r \in logs[m] :
              /\ r.event = "message_received"
              /\ r.data.url = Data(m).url /\ r.data.depth = Data(m).depth
        /\ \E r \in logs[m] : r.event = "ingestion_error"
        /\ \E r \in logs[m] : r.event = "pub_failed_in_error_handler"

\* C18: the content of every published success payload, of a web task as of
\* a file task, is non-empty after whitespace trim; a crawl or conversion
\* that yields only empty content produces no success payload.
C18_SuccessContentNotEmpty ==
    \A m \in Msgs :
        \A p \in Published(m) : p.status = "success" => Strip(p.content) # ""

\* C17: for every record handle_web_task returns, every URL in links has
\* the network location of the request URL, whether it came from the
\* crawler's links.internal list, from the markdown or from the sitemap.
C17_LinksOnRequestHost ==
    web_out.kind = "returned" =>
        \A i \in 1..Len(web_out.records) :
            \A u \in web_out.records[i].links : Netloc(u) = Netloc(crawl_url)

\* C19: when every crawl attempt of a handle_web_task call fails with a
\* transient error (the expiry of the outer deadline included, as
\* CRAWL_TIMEOUT), the call makes exactly 3 attempts, sleeps 2 s and then
\* 4 s between them and not after the last, and raises the last error, whose
\* kind is transient.
C19_TransientRetriedThreeTimes ==
    (\A i \in 1..Len(errors) : errors[i].code \in TRANSIENT_ERRORS) =>
        /\ arun_calls <= 3 /\ arun_calls = attempt
        /\ web_pc = "sleep" => attempt < 3 /\ sleeps = SubSeq(<<2, 4>>, 1, attempt)
        /\ web_pc = "crawl" => sleeps = SubSeq(<<2, 4>>, 1, attempt - 1)
        /\ web_pc = "raised" =>
              /\ arun_calls = 3 /\ Len(errors) = 3
              /\ sleeps = <<2, 4>>
              /\ web_out.kind = "raised" /\ web_out.exc = errors[3]
              /\ web_out.exc.type = "IngestionError"
              /\ web_out.exc.code \in TRANSIENT_ERRORS

C19_Witness ==
    /\ web_pc = "raised" /\ Len(errors) = 3 /\ sleeps = <<2, 4>>
    /\ \A i \in 1..3 : errors[i].code \in TRANSIENT_ERRORS
    /\ errors[2] = IngestionError(ERR_CRAWL_TIMEOUT, "Crawl timed out after 120000ms")
    /\ errors[3].code = ERR_CRAWL_REFUSED

\* C20: when a crawl attempt fails with an error whose classified kind is not
\* transient, handle_web_task raises it at once: no crawl attempt and no
\* sleep follows, on whichever attempt it occurs.
C20_TerminalRaisedAtOnce ==
    \A i \in 1..Len(errors) : errors[i].code \notin TRANSIENT_ERRORS =>
        /\ i = Len(errors)
        /\ web_pc = "raised"
        /\ web_out.kind = "raised" /\ web_out.exc = errors[i]
        /\ arun_calls = i
        /\ Len(sleeps) = i - 1

C20_Witness ==
    /\ web_pc = "raised" /\ Len(errors) = 3
    /\ errors[3].code = ERR_CRAWL_BLOCKED
    /\ arun_calls = 3 /\ sleeps = <<2, 4>>

\* C22: for a root request URL, when the sitemap resolver raises or returns
\* nothing, handle_web_task still returns the single record built from the
\* crawl, with the links the crawl found, and calls crawler.arun no further
\* time.
C22_SitemapFailureNonBlocking ==
    (web_pc = "returned" /\ sitemap.called /\ (sitemap.raised \/ sitemap.urls = {})) =>
        /\ IsRoot(crawl_url)
        /\ web_out.kind = "returned"
        /\ Len(web_out.records) = 1
        /\ web_out.records =
               WebRecords(crawl_result, extract_web_metadata(crawl_result, crawl_url))
        /\ arun_calls = attempt

C22_Witness ==
    /\ web_pc = "returned"
    /\ sitemap.called /\ sitemap.raised
    /\ attempt = 2
    /\ web_out.records[1].links # {}

\* the keyword groups of the classification, on the upper-cased text
TimeoutWords(u) == Contains(u, "TIMED_OUT") \/ Contains(u, "TIMEOUT")
DnsWords(u) == Contains(u, "ERR_NAME_NOT_RESOLVED") \/ Contains(u, "DNS")
ConnectionWords(u) ==
    \E kw \in {"ERR_CONNECTION_REFUSED", "ERR_CONNECTION_RESET", "ERR_CONNECTION_CLOSED",
               "ECONNREFUSED", "ECONNRESET"} : Contains(u, kw)
BlockedWords(u) == \E kw \in {"ROBOTS", "BLOCKED", "FORBIDDEN"} : Contains(u, kw)

\* C24: _classify_crawl_error returns a crawl kind for every raw text, by the
\* priority order on the upper-cased text: timeout keywords win over DNS
\* keywords, these over connection keywords, these over blocked keywords;
\* a text with none of them is classified ERR_CRAWL_TIMEOUT.
C24_ClassifyPriority ==
    classified # NoException =>
        LET u == Upper(raw_message) IN
        /\ classified.type = "IngestionError"
        /\ classified.msg = raw_message
        /\ classified.code \in
               {ERR_CRAWL_TIMEOUT, ERR_CRAWL_DNS, ERR_CRAWL_REFUSED, ERR_CRAWL_BLOCKED}
        /\ TimeoutWords(u) => classified.code = ERR_CRAWL_TIMEOUT
        /\ (~TimeoutWords(u) /\ DnsWords(u)) => classified.code = ERR_CRAWL_DNS
        /\ (~TimeoutWords(u) /\ ~DnsWords(u) /\ ConnectionWords(u)) =>
               classified.code = ERR_CRAWL_REFUSED
        /\ (~TimeoutWords(u) /\ ~DnsWords(u) /\ ~ConnectionWords(u) /\ BlockedWords(u)) =>
               classified.code = ERR_CRAWL_BLOCKED
        /\ (~TimeoutWords(u) /\ ~DnsWords(u) /\ ~ConnectionWords(u) /\ ~BlockedWords(u)) =>
               classified.code = ERR_CRAWL_TIMEOUT

C24_Witness ==
    /\ classified.code = ERR_CRAWL_TIMEOUT
    /\ DnsWords(Upper(raw_message))
    /\ TimeoutWords(Upper(raw_message))

\* C25 as stated: classifying a raw text, formatting the kind as its name and
\* classifying the name again yields the kind of the raw text.
C25_NameRoundTrip ==
    (reclassified # NoException /\ formatted = KindName(classified)) =>
        reclassified.code = classified.code

\* C25: the round trip through the name keeps the kinds ERR_CRAWL_TIMEOUT,
\* ERR_CRAWL_DNS and ERR_CRAWL_BLOCKED and turns ERR_CRAWL_REFUSED into
\* ERR_CRAWL_TIMEOUT; the round trip through the formatted error text, which
\* holds the raw text, keeps all four kinds.
C25_RoundTripButRefused ==
    reclassified # NoException =>
        IF formatted = ErrorText(classified)
        THEN reclassified.code = classified.code
        ELSE reclassified.code =
                 IF classified.code = ERR_CRAWL_REFUSED THEN ERR_CRAWL_TIMEOUT
                 ELSE classified.code

C25_Witness ==
    /\ classified.code = ERR_CRAWL_REFUSED
    /\ formatted = KindName(classified)
    /\ reclassified.code = ERR_CRAWL_TIMEOUT

\* C23: fetch_sitemap_urls_with_index terminates, also on sitemap indexes
\* that list themselves or each other: no GET is made by a call deeper than
\* 3, the calls are nested 5 deep at most, and a call at depth 4 returns
\* no page.
C23_ResolverTerminates ==
    /\ [](/\ \A d \in get_depths : d <= MAX_SITEMAP_INDEX_DEPTH
          /\ Len(frames) <= MAX_SITEMAP_INDEX_DEPTH + 2
          /\ \A i \in 1..Len(frames) :
                /\ frames[i].depth = i - 1
                /\ frames[i].depth > MAX_SITEMAP_INDEX_DEPTH => frames[i].pages = {})
    /\ <>(all_urls.state = "done")

C23_Witness ==
    /\ all_urls.state = "done"
    /\ all_urls.urls = {"http://ex.com/about"}
    /\ sitemaps["http://ex.com/sitemap.xml"].subs =
           <<"http://ex.com/sitemap.xml", "http://ex.com/sitemap-b.xml">>
    /\ cuts > 0
    /\ gets = 7

\* C26: after shutdown() has handled SIGINT or SIGTERM the reader, the
\* producer and the crawler are closed in this order, whether or not a
\* close() raises, and the event loop is eventually stopped.
C26_ShutdownStopsLoop ==
    /\ [](\A i \in 1..Len(closes) :
             closes[i] = "crawler" =>
                 \E j, k \in 1..(i - 1) :
                     j < k /\ closes[j] = "reader" /\ closes[k] = "producer")
    /\ (shutdowns > 0) ~> (loop = "stopped")

\* the call behind entry i of succeeded was configured with the LLM filter and
\* its result holds an empty or whitespace-only fit_markdown
LlmBlank(i) == succeeded[i].generator = "llm" /\ FitBlank(succeeded[i].markdown)

\* before entry j the circuit was closed and no failure was counted
FromZero(j) == j = 1 \/ (succeeded[j - 1].failures = 0 /\ ~succeeded[j - 1].open)

\* C21: when, from a closed circuit with no failure counted, three
\* LLM-enabled handle_web_task calls in a row succeed with an empty or
\* whitespace-only fit_markdown, the third opens the circuit, and a call for
\* a URL that does not bypass the LLM, started less than 300 s after the
\* circuit was opened, is configured with the default generator.
C21_CircuitOpensAfterThree ==
    /\ \A j \in 1..(Len(succeeded) - 2) :
          (FromZero(j) /\ \A i \in j..(j + 2) : LlmBlank(i)) =>
              /\ succeeded[j + 2].opened
              /\ succeeded[j + 2].failures = _LLM_CIRCUIT_THRESHOLD
    /\ \A c \in 1..MaxCalls :
          (/\ calls[c].state = "crawling"
           /\ UseLlm(calls[c].url)
           /\ calls[c].since_open \in 0..(_LLM_CIRCUIT_COOLDOWN_S - 1)) =>
              calls[c].generator = "default"

C21_Witness ==
    /\ Len(succeeded) = 3
    /\ \A i \in 1..3 : LlmBlank(i)
    /\ succeeded[3].opened
    /\ calls[4].state = "crawling"
    /\ UseLlm(calls[4].url)
    /\ calls[4].since_open = TickS
    /\ calls[4].generator = "default"

\* C30: the circuit goes from closed to open only at a recorded failure that
\* takes the count of recorded failures since the last recorded success to
\* 3 or more; a recorded success sets _llm_consecutive_failures and
\* _llm_circuit_open_until to zero.
C30_OpensOnlyAtThreshold ==
    LET n == Len(succeeded)
        Recorded == {i \in 1..n : succeeded[i].kind # "none"}
        \* the recorded failures up to i since the last recorded success
        Streak(i) == {k \in Recorded : /\ k <= i
                                       /\ succeeded[k].kind = "failure"
                                       /\ \A l \in Recorded :
                                             (k < l /\ l <= i) => succeeded[l].kind = "failure"}
    IN  /\ \A i \in 1..n :
              /\ succeeded[i].opened =>
                     /\ succeeded[i].kind = "failure"
                     /\ Cardinality(Streak(i)) >= _LLM_CIRCUIT_THRESHOLD
                     /\ succeeded[i].failures >= _LLM_CIRCUIT_THRESHOLD
              /\ succeeded[i].kind = "success" =>
                     /\ succeeded[i].failures = 0
                     /\ ~succeeded[i].open
              /\ succeeded[i].failures = Cardinality(Streak(i))
        /\ _is_llm_circuit_open(now, _llm_circuit_open_until) =>
              /\ opened_at >= 0
              /\ _llm_circuit_open_until = opened_at + _LLM_CIRCUIT_COOLDOWN_S
        /\ (n > 0 /\ succeeded[n].kind = "success") =>
              /\ _llm_consecutive_failures = 0
              /\ _llm_circuit_open_until = 0

C30_Witness ==
    /\ Len(succeeded) = 5
    /\ succeeded[1].kind = "failure"
    /\ succeeded[2].kind = "success"
    /\ \A i \in 3..5 : succeeded[i].kind = "failure"
    /\ ~succeeded[4].open
    /\ succeeded[5].opened
    /\ _llm_consecutive_failures = _LLM_CIRCUIT_THRESHOLD
    /\ _is_llm_circuit_open(now, _llm_circuit_open_until)

\* C32: when a browser-crash keyword has triggered restart_crawler, the
\* exception that reaches the requeue / terminal logic is the one the handler
\* raised, also when restart_crawler fails to re-initialise the crawler.
C32_RestartKeepsException ==
    \A m \in Msgs :
        restarted[m] /\ pc[m] = "exit_gate" => exc[m] = hres[m].exc

\* C31: _llm_consecutive_failures and _llm_circuit_open_until are written
\* only by calls that were configured with the LLM filter: a call for a
\* .txt / llms.txt URL and a call that got the default generator because
\* the circuit was open when it started record nothing, also when the
\* cooldown is over before the crawl completes.
C31_OnlyLlmCallsRecord ==
    \A i \in 1..Len(succeeded) :
        succeeded[i].kind # "none" => succeeded[i].generator = "llm"

\* the upper-cased text holds one of the keywords of _is_transient_error
RetryWords(u) ==
    \/ Contains(u, "TIMEOUT")
    \/ Contains(u, "TIMED_OUT")
    \/ Contains(u, "CONNECTION")
    \/ Contains(u, "ERR_NAME_NOT_RESOLVED")
    \/ Contains(u, "ECONNREFUSED")

\* the handler of the file task m raised an exception handle_file_task left
\* unclassified: no IngestionError, and none of the four words in its text
UnclassifiedFileFailure(m) ==
    /\ TaskType(m) = "file"
    /\ HandlerRaised(m)
    /\ hres[m].exc.type = "Exception"
    /\ LET t == Lower(hres[m].exc.msg) IN
       /\ ~Contains(t, "timeout")
       /\ ~Contains(t, "password")
       /\ ~Contains(t, "encrypted")
       /\ ~Contains(t, "format")

\* C35 as stated: a conversion exception handle_file_task leaves unclassified
\* always ends as a terminal failure of the message (producer configured,
\* touch never failing): one failure publish and one finish, never a requeue,
\* for any attempts value.
C35_UnclassifiedIsTerminal ==
    \A m \in Msgs :
        (Done(m) /\ producer /\ ~touch_failed[m] /\ UnclassifiedFileFailure(m))
        => FailedThenFinished(m)

\* C35: a conversion exception handle_file_task leaves unclassified ends as a
\* terminal failure of the message, one failure publish and one finish and
\* no requeue, unless its upper-cased text holds TIMED_OUT, CONNECTION,
\* ERR_NAME_NOT_RESOLVED or ECONNREFUSED and attempts is at most
\* retry_max_attempts: then the message is requeued with the backoff delay
\* and nothing is published.
C35_UnclassifiedTerminalUnlessRetryWord ==
    \A m \in Msgs :
        (Done(m) /\ producer /\ ~touch_failed[m] /\ UnclassifiedFileFailure(m))
        => IF RetryWords(Upper(hres[m].exc.msg))
                /\ attempts[m] <= settings.retry_max_attempts
           THEN OnlyRequeued(m)
           ELSE FailedThenFinished(m)

C35_Witness ==
    \E m \in Msgs :
        /\ Done(m)
        /\ UnclassifiedFileFailure(m)
        /\ hres[m].exc = Exception("corrupt xref table")
        /\ attempts[m] = 1
        /\ FailedThenFinished(m)

\* C36: handle_web_task calls the sitemap resolver if and only if the path
\* of the request URL is empty or "/"; the links it then returns are the
\* union of the crawl's links and the sitemap's URLs, no URL being appended
\* that the crawl's links hold already; for any other URL the links are
\* exactly the crawl's links.
C36_SitemapOnlyForRoot ==
    /\ sitemap.called => IsRoot(crawl_url)
    /\ web_out.kind = "returned" =>
          LET crawl_links == extract_web_metadata(crawl_result, crawl_url)
              links == web_out.records[1].links
          IN  /\ sitemap.called <=> IsRoot(crawl_url)
              /\ IF IsRoot(crawl_url)
                 THEN /\ links = crawl_links \cup sitemap.urls
                      /\ sitemap.appended \cap crawl_links = {}
                      /\ crawl_links \cup sitemap.appended = links
                 ELSE links = crawl_links

\* a root URL whose sitemap lists a URL the crawl found too, and one more
C36_Witness ==
    /\ web_out.kind = "returned"
    /\ IsRoot(crawl_url)
    /\ sitemap.called
    /\ sitemap.urls \cap extract_web_metadata(crawl_result, crawl_url) # {}
    /\ sitemap.appended # {}

\* C33: handle_file_task checks, in this order, that the path is a regular
\* file (else INVALID_FORMAT), that its size is above 0 (else EMPTY) and that
\* its size is at most 200 MiB (else INVALID_FORMAT); when a check fails
\* nothing is scheduled on the pool and no pool is constructed. A file that
\* passes is scheduled exactly once.
C33_PreflightOrder ==
    file_pc \notin {"idle", "start"} =>
        LET passes == file_stat.is_file /\ file_stat.size > 0
                        /\ file_stat.size <= 200 * 1024 * 1024
        IN  /\ ~file_stat.is_file =>
                  file_out.exc.type = "IngestionError"
                    /\ file_out.exc.code = ERR_INVALID_FORMAT
            /\ (file_stat.is_file /\ file_stat.size = 0) =>
                  file_out.exc = IngestionError(ERR_EMPTY, "File is empty (0 bytes)")
            /\ (file_stat.is_file /\ file_stat.size > 200 * 1024 * 1024) =>
                  file_out.exc.type = "IngestionError"
                    /\ file_out.exc.code = ERR_INVALID_FORMAT
            /\ ~passes => /\ file_pc = "raised"
                          /\ pool_calls = <<>>
                          /\ pool_result = NoPoolResult
            /\ passes => /\ pool_calls \in {<<"schedule">>, <<"ProcessPool", "schedule">>}
                         /\ _executor = "active"

\* a path that is no regular file and has size 0, with the pool inactive
C33_Witness ==
    /\ file_pc = "raised"
    /\ ~file_stat.is_file
    /\ file_stat.size = 0
    /\ file_out.exc.code = ERR_INVALID_FORMAT
    /\ _executor = "inactive"
    /\ pool_calls = <<>>

\* C34: handle_file_task maps a failure of the conversion in this priority:
\* a hard timeout or an expired worker process gives TIMEOUT; else a
\* lower-cased text with "timeout" gives TIMEOUT, else one with "password" or
\* "encrypted" gives ENCRYPTED, else one with "format" gives INVALID_FORMAT,
\* else the exception is raised again as it is; the EMPTY error raised for
\* blank content is passed through as it is.
C34_FileFailurePriority ==
    /\ pool_result.kind = "raised" =>
        LET e == pool_result.exc
            out == file_out.exc
            t == Lower(e.msg)
            hard == e.type \in {"TimeoutError", "ProcessExpired"}
            pw == Contains(t, "password") \/ Contains(t, "encrypted")
        IN  /\ file_out.kind = "raised"
            /\ hard => out.type = "IngestionError" /\ out.code = ERR_TIMEOUT
            /\ (~hard /\ Contains(t, "timeout")) =>
                  out = IngestionError(ERR_TIMEOUT, "Processing timed out")
            /\ (~hard /\ ~Contains(t, "timeout") /\ pw) =>
                  out = IngestionError(ERR_ENCRYPTED, "File is password protected")
            /\ (~hard /\ ~Contains(t, "timeout") /\ ~pw /\ Contains(t, "format")) =>
                  out = IngestionError(ERR_INVALID_FORMAT, "Invalid file format")
            /\ (~hard /\ ~Contains(t, "timeout") /\ ~pw /\ ~Contains(t, "format")) =>
                  out = e
    /\ (pool_result.kind = "returned" /\ Strip(pool_result.content) = "") =>
          /\ file_out.kind = "raised"
          /\ file_out.exc = IngestionError(ERR_EMPTY, "File contains no text")

\* a failure whose text holds "timeout" and "password"
C34_Witness ==
    /\ pool_result.exc = Exception("Timeout while opening password protected file")
    /\ file_out.exc.code = ERR_TIMEOUT

Acks(m) == CallsOf(m, "finish") \cup CallsOf(m, "requeue")

\* C38: on one delivery process_message makes at most one acknowledgement:
\* never a finish and a requeue, never two of either, also when the finish or
\* the requeue itself raises.
C38_AtMostOneAck ==
    \A m \in Msgs : Cardinality(Acks(m)) <= 1

\* an invocation has ended whose only acknowledgement raised
C38_Witness ==
    \E m \in Msgs :
        /\ Done(m)
        /\ Cardinality(Acks(m)) = 1
        /\ \E i \in Acks(m) : events[m][i].failed

\* C39: while the circuit is open no step changes
\* _llm_consecutive_failures or _llm_circuit_open_until: a call that was
\* started with the LLM filter and succeeds during the cooldown neither
\* extends the window nor resets it.
C39_OpenCircuitFrozen ==
    [][_is_llm_circuit_open(now, _llm_circuit_open_until) =>
           /\ _llm_consecutive_failures' = _llm_consecutive_failures
           /\ _llm_circuit_open_until' = _llm_circuit_open_until]_vars

C39_Witness ==
    /\ _is_llm_circuit_open(now, _llm_circuit_open_until)
    /\ Len(succeeded) = 4
    /\ succeeded[3].opened
    /\ succeeded[4].kind = "none"
    /\ succeeded[4].generator = "llm"
    /\ ~FitBlank(succeeded[4].markdown)
    /\ _llm_consecutive_failures = _LLM_CIRCUIT_THRESHOLD

\* the dispatch of m ended without a record: the handler returned an empty
\* list, or the task type has no handler and the gate was passed
NothingExtracted(m) ==
    /\ body[m].json
    /\ \/ hres[m].kind = "returned" /\ hres[m].n = 0
       \/ /\ TaskType(m) \notin {"web", "file"}
          /\ pc[m] \notin {"queued", "sem_wait", "dispatch"}
          /\ exc[m].type # "CancelledError"

\* C28: when the handler returns an empty list, or the task type is neither
\* web nor file, process_message publishes exactly one failure payload with
\* error "No content extracted", then calls finish once, and never requeues.
C28_EmptyResultReported ==
    \A m \in Msgs : NothingExtracted(m) =>
        /\ CallsOf(m, "requeue") = {}
        /\ PubsOf(m, "success") = {}
        /\ Done(m) =>
              /\ Len(events[m]) = 2
              /\ events[m][1].op = "pub"
              /\ events[m][1].payload.status = "failed"
              /\ events[m][1].payload.error = "No content extracted"
              /\ events[m][2].op = "finish"

C28_Witness ==
    \E m \in Msgs :
        /\ Done(m) /\ NothingExtracted(m)
        /\ TaskType(m) = "video"
        /\ events[m] = <<PubCall(EmptyResultPayload(Data(m)), FALSE), FinishCall(FALSE)>>

\* C29: when producer.pub raises while one of several success records is
\* published, process_message still publishes every remaining record and
\* calls finish exactly once; the failure neither requeues the message nor
\* turns it into a failure payload.
C29_PublishFailureTolerated ==
    \A m \in Msgs :
        (\E i \in PubsOf(m, "success") : events[m][i].failed) =>
            /\ CallsOf(m, "requeue") = {}
            /\ PubsOf(m, "failed") = {}
            /\ pc[m] \notin {"except", "except_finish"}
            /\ Done(m) =>
                  /\ \A k \in 1..hres[m].n :
                        \E j \in PubsOf(m, "success") : events[m][j].payload.part = k
                  /\ Cardinality(PubsOf(m, "success")) = hres[m].n
                  /\ Cardinality(CallsOf(m, "finish")) = 1
                  /\ events[m][Len(events[m])].op = "finish"

C29_Witness ==
    \E m \in Msgs :
        /\ Done(m) /\ hres[m].n = 2 /\ Len(events[m]) = 3
        /\ events[m][1].op = "pub" /\ events[m][1].failed
        /\ events[m][2].op = "pub" /\ ~events[m][2].failed
        /\ events[m][2].payload.part = 2
        /\ events[m][3].op = "finish"

\* the instances whose browser is up: started and not closed
Live == {c \in 1..MaxCrawlers : crawlers[c] \in {"started", "closing"}}

\* the instances CRAWLER no longer refers to, although they were constructed
Replaced == {c \in 1..MaxCrawlers : crawlers[c] # "unused" /\ c # CRAWLER}

\* C27: the crawler is a process-wide singleton under any interleaving of
\* concurrent messages: at every moment at most one instance is started and
\* not yet closed, and every instance that restart_crawler or get_crawler
\* replaced has been closed or never came up.
C27_CrawlerSingleton ==
    /\ Cardinality(Live) <= 1
    /\ \A c \in Replaced : crawlers[c] \in {"closed", "failed"}

\* the web messages that are in handle_web_task with the instance get_crawler
\* gave them
Fetching == {m \in Msgs : TaskType(m) = "web" /\ pc[m] = "in_handler"}

\* C40: under any interleaving of concurrent web messages with crawler
\* restarts, the instance a message fetches with is one whose start() has
\* completed and that restart_crawler has not closed: get_crawler hands out
\* no starting or closed instance, and restart_crawler closes no instance
\* another in-flight message is fetching with.
C40_FetchingCrawlerIsUp ==
    \A m \in Fetching : cid[m] # 0 /\ crawlers[cid[m]] = "started"

====
